---- MODULE Spec2Model ----
(***************************************************************************)
(* Fetch escalation, headless-browser lifecycle and logo selection of the  *)
(* landing-page generator's scrape endpoints.                              *)
(*                                                                         *)
(* One scrape request is served by one of the handler variants found in    *)
(* the repository:                                                         *)
(*   beeExpress        src/unnamed/part_000   (ScrapingBee, Express)       *)
(*   beeEdge           src/unnamed/part_006   (ScrapingBee, edge runtime)  *)
(*   plainExpress      src/src/api/scrape.ts  (plain fetch, Express)       *)
(*   puppeteerExpress  src/api/scrape.ts      (Puppeteer, Express)         *)
(*   puppeteerNext     src/unnamed/part_007   (Puppeteer, Next API route)  *)
(*   playwrightEdge    src/unnamed/part_003   (Playwright, edge runtime)   *)
(*   puppeteerEdge     src/unnamed/part_005   (Puppeteer-core, edge)       *)
(*                                                                         *)
(* Strings are sequences of tokens ("https:", "//", a host, "/", a word),  *)
(* so that startsWith, includes, toLowerCase and URL parsing are computed  *)
(* and not assumed.                                                        *)
(***************************************************************************)
EXTENDS Integers, Sequences, FiniteSets, TLC

VARIABLES
    handler,     \* the handler variant serving the request, "none" before it arrives
    pc,          \* position of the handler in its code
    method,      \* req.method
    url,         \* req.query.url, <<>> when missing
    brand,       \* req.query.brand
    apiKey,      \* whether VITE_SCRAPINGBEE_API_KEY is set
    tier,        \* index of the escalation tier whose response is in `response`
    fetchCalls,  \* number of fetch calls issued so far
    pending,     \* awaited operations not yet settled
    responses,   \* tier -> the Response that tier's fetch resolved with
    html,        \* const html = await response.text()
    parsed,      \* the body handed to cheerio.load
    browser,     \* "none", "open" or "closed"
    doc,         \* the <img> elements of the fetched page, in document order
    logo,        \* the logo computed by the handler
    err,         \* the Error caught by the handler
    res,         \* the response sent to the caller
    fn,          \* the function (and its variant) applied to `input`
    input,       \* the arguments of a function of the pipeline
    output,      \* the value the function returned
    phase        \* "idle", "input" (arguments chosen) or "output" (function applied)

vars == <<handler, pc, method, url, brand, apiKey, tier, fetchCalls, pending,
          responses, html, parsed, browser, doc, logo, err, res,
          fn, input, output, phase>>

reqVars == <<handler, method, url, brand, apiKey>>
escVars == <<tier, fetchCalls, responses, html, parsed>>
logoVars == <<doc, logo>>
fnVars == <<fn, input, output, phase>>

-----------------------------------------------------------------------------
(* Bounds and program constants *)

\* Longest list of <img> elements a fetched page holds.
MaxImgs == 2

\* Number of fetch strategies of the ScrapingBee handlers:
\* basic, premium_proxy, premium_proxy + render_js.
NumTiers == 3

\* page.goto(url, { timeout: 15000 }) in milliseconds
GotoTimeout == 15000

\* page.goto(url, { waitUntil: 'networkidle2', timeout: 30000 })
GotoTimeoutNext == 30000

-----------------------------------------------------------------------------
(* Strings *)

\* The value `undefined` (an absent query parameter, logoCandidates[0] of an
\* empty list, the result of Array.prototype.find without a match).
Undefined == <<"<undefined>">>

\* A query parameter given more than once: Express parses it to an array.
ArrayValue == <<"<array>">>

\* String.prototype.toLowerCase on one token.
LowerTok(t) ==
    CASE t = "LOGO" -> "logo"
      [] t = "Logo" -> "logo"
      [] t = "ACME" -> "acme"
      [] t = "Acme" -> "acme"
      [] t = "SITE" -> "site"
      [] t = "CDN" -> "cdn"
      [] t = "SITE:8080" -> "site:8080"
      [] t = "COLOR" -> "color"
      [] OTHER -> t

toLowerCase(s) == [i \in DOMAIN s |-> LowerTok(s[i])]

\* String.prototype.includes
includes(s, sub) ==
    \E i \in 0..(Len(s) - Len(sub)) : SubSeq(s, i + 1, i + Len(sub)) = sub

\* String.prototype.startsWith
startsWith(s, p) == Len(s) >= Len(p) /\ SubSeq(s, 1, Len(p)) = p

\* JavaScript truthiness of a value that is a string or undefined.
Truthy(s) == s # <<>> /\ s # Undefined

IsString(s) == s # Undefined /\ s # ArrayValue

-----------------------------------------------------------------------------
(* URLs: the WHATWG URL parser on token strings *)

Schemes == {"http:", "https:"}
HostToks == {"site", "SITE", "cdn", "CDN", "site:8080", "SITE:8080"}

\* new URL(s) succeeds: scheme, "//", host, then nothing or a path.
URLParses(s) ==
    /\ Len(s) >= 3
    /\ s[1] \in Schemes
    /\ s[2] = "//"
    /\ s[3] \in HostToks
    /\ Len(s) >= 4 => s[4] = "/"

\* new URL(s).protocol
URLProtocol(s) == s[1]

\* new URL(s).host: the parser lower-cases the host; the port stays.
URLHost(s) == LowerTok(s[3])

\* new URL(s).hostname: the lower-cased host without its port.
URLHostname(s) == IF URLHost(s) = "site:8080" THEN "site" ELSE URLHost(s)

\* new URL(s).href: serialisation lower-cases the host and gives an empty
\* path the form "/".
URLHref(s) ==
    <<s[1], "//", URLHost(s), "/">> \o (IF Len(s) >= 5 THEN SubSeq(s, 5, Len(s)) ELSE <<>>)

\* The directory of the base's path: its tokens up to the last "/".
URLBaseDir(base) ==
    LET path == IF Len(base) >= 5 THEN SubSeq(base, 5, Len(base)) ELSE <<>>
        slashes == {i \in DOMAIN path : path[i] = "/"}
    IN IF slashes = {} THEN <<>>
       ELSE SubSeq(path, 1, CHOOSE i \in slashes : \A j \in slashes : j <= i)

\* new URL(rel, base).href for a reference that has no scheme and no
\* authority: a reference with a leading "/" replaces the base's path, any
\* other one replaces the last segment of the base's path.
URLResolveHref(rel, base) ==
    <<URLProtocol(base), "//", URLHost(base), "/">>
        \o (IF startsWith(rel, <<"/">>) THEN Tail(rel) ELSE URLBaseDir(base) \o rel)

\* new URL(u, base) succeeds: the base must parse, and so must a reference
\* that names a scheme or an authority of its own.
URLNewParses(u, base) ==
    /\ URLParses(base)
    /\ IF u = <<>> THEN TRUE
       ELSE IF u[1] \in Schemes THEN URLParses(u)
       ELSE IF u[1] = "//" THEN URLParses(<<URLProtocol(base)>> \o u)
       ELSE TRUE

\* new URL(u, base).href
URLNewHref(u, base) ==
    IF u = <<>> THEN URLHref(base)
    ELSE IF u[1] \in Schemes THEN URLHref(u)
    ELSE IF u[1] = "//" THEN URLHref(<<URLProtocol(base)>> \o u)
    ELSE URLResolveHref(u, base)

\* url.startsWith('http'): the first token begins with the letters http.
startsWithHttp(u) == u # <<>> /\ u[1] \in {"http:", "https:", "httpdocs"}

\* resolveUrl with "https:" put in front of a protocol-relative reference
\* whatever the base's scheme is.
resolveUrl_FixedScheme(base, u) ==
    IF ~Truthy(u) THEN <<>>
    ELSE IF startsWith(u, <<"data:">>) THEN <<>>
    ELSE IF startsWith(u, <<"http:", "//">>) \/ startsWith(u, <<"https:", "//">>) THEN u
    ELSE IF startsWith(u, <<"//">>)
         THEN IF URLParses(base) THEN <<"https:">> \o u ELSE <<>>
    ELSE IF URLParses(base) THEN URLResolveHref(u, base) ELSE <<>>

\* resolveUrl(base, url) of the Puppeteer Express handler and of the
\* ScrapingBee Express handler.
resolveUrl(base, u) ==
    IF ~Truthy(u) THEN <<>>
    ELSE IF startsWith(u, <<"data:">>) THEN <<>>
    ELSE IF startsWith(u, <<"http:", "//">>) \/ startsWith(u, <<"https:", "//">>) THEN u
    ELSE IF startsWith(u, <<"//">>)
         THEN IF URLParses(base) THEN <<URLProtocol(base)>> \o u ELSE <<>>
    ELSE IF URLParses(base) THEN URLResolveHref(u, base) ELSE <<>>

\* resolveUrl(base, relative) of src/unnamed/part_007 (and part_004): any
\* reference that starts with the letters http is returned as it is.
resolveUrlNext(base, u) ==
    IF ~Truthy(u) THEN <<>>
    ELSE IF startsWith(u, <<"data:">>) THEN <<>>
    ELSE IF startsWithHttp(u) THEN u
    ELSE IF startsWith(u, <<"//">>)
         THEN IF URLParses(base) THEN <<URLProtocol(base)>> \o u ELSE <<>>
    ELSE IF URLParses(base) THEN URLResolveHref(u, base) ELSE <<>>

\* resolveUrl(base, url) of src/unnamed/part_001: a data: URI is returned.
resolveUrlMeta(base, u) ==
    IF ~Truthy(u) THEN <<>>
    ELSE IF startsWith(u, <<"data:">>) THEN u
    ELSE IF startsWith(u, <<"http:", "//">>) \/ startsWith(u, <<"https:", "//">>) THEN u
    ELSE IF startsWith(u, <<"//">>)
         THEN IF URLParses(base) THEN <<URLProtocol(base)>> \o u ELSE <<>>
    ELSE IF URLParses(base) THEN URLResolveHref(u, base) ELSE <<>>

\* resolveUrl(base, url) of src/unnamed/part_002: a data: URI is returned,
\* everything else goes through new URL(url, base).href.
resolveUrlHref(base, u) ==
    IF ~Truthy(u) THEN <<>>
    ELSE IF startsWith(u, <<"data:">>) THEN u
    ELSE IF URLNewParses(u, base) THEN URLNewHref(u, base) ELSE <<>>

-----------------------------------------------------------------------------
(* Logo selection (src/api/scrape.ts) *)

\* An <img> element: its src, alt and class attributes ("" when absent).
Img(s, a, c) == [src |-> s, alt |-> a, className |-> c]

\* The filter of logoCandidates: src, alt or class contains "logo" or "brand".
IsLogoLike(img) ==
    LET s == toLowerCase(img.src)
        a == toLowerCase(img.alt)
        c == toLowerCase(img.className)
    IN \/ includes(s, <<"logo">>)
       \/ includes(a, <<"logo">>)
       \/ includes(c, <<"logo">>)
       \/ includes(s, <<"brand">>)
       \/ includes(a, <<"brand">>)
       \/ includes(c, <<"brand">>)

\* $('img').filter(...).map((_, img) => $(img).attr('src') || '').get()
logoCandidates(d) ==
    LET kept == SelectSeq(d, IsLogoLike)
    IN [i \in DOMAIN kept |-> kept[i].src]

\* The predicate of logoCandidates.find: the resolved URL parses and its
\* hostname is the page's hostname.
HostMatches(u, src) ==
    LET resolved == resolveUrl(u, src)
    IN URLParses(resolved) /\ URLHostname(resolved) = URLHostname(u)

\* logoCandidates.find(src => ...): the first match, undefined without one.
domainCandidate(u, cands) ==
    IF \E i \in DOMAIN cands : HostMatches(u, cands[i])
    THEN cands[CHOOSE i \in DOMAIN cands :
                 /\ HostMatches(u, cands[i])
                 /\ \A j \in 1..(i - 1) : ~HostMatches(u, cands[j])]
    ELSE Undefined

\* brandCandidates comparing case-sensitively (no toLowerCase).
brandCandidates_CaseSensitive(b, cands) ==
    LET Matches(src) == includes(src, b)
    IN SelectSeq(cands, Matches)

\* logoCandidates.filter(src => src.toLowerCase().includes(brandLower))
brandCandidates(b, cands) ==
    LET brandLower == toLowerCase(b)
        Matches(src) == includes(toLowerCase(src), brandLower)
    IN SelectSeq(cands, Matches)

\* The brand branch: brandCandidates[0] when a string brand is given and
\* matches, otherwise logo keeps its initial ''.
brandLogo(b, cands) ==
    IF Truthy(b) /\ IsString(b) /\ brandCandidates(b, cands) # <<>>
    THEN brandCandidates(b, cands)[1]
    ELSE <<>>

\* The fallback branch: if (!logo) logo = logoCandidates[0].
fallbackLogo(l, cands) ==
    IF ~Truthy(l)
    THEN (IF cands = <<>> THEN Undefined ELSE cands[1])
    ELSE l

\* selectLogo with the brand rule tried before the same-host rule.
selectLogo_BrandFirst(u, b, cands) ==
    LET bl == brandLogo(b, cands)
        dc == domainCandidate(u, cands)
    IN IF Truthy(bl) THEN resolveUrl(u, bl)
       ELSE IF Truthy(dc) THEN resolveUrl(u, dc)
       ELSE resolveUrl(u, fallbackLogo(bl, cands))

\* selectLogo without the closing logo = resolveUrl(url, logo).
selectLogo_Unresolved(u, b, cands) ==
    LET dc == domainCandidate(u, cands)
    IN IF Truthy(dc)
       THEN dc
       ELSE fallbackLogo(brandLogo(b, cands), cands)

\* The whole selection, ending in logo = resolveUrl(url, logo).
selectLogo(u, b, cands) ==
    LET dc == domainCandidate(u, cands)
    IN IF Truthy(dc)
       THEN resolveUrl(u, dc)
       ELSE resolveUrl(u, fallbackLogo(brandLogo(b, cands), cands))

-----------------------------------------------------------------------------
(* Requests, responses and the inputs the environment can supply *)

BeeHandlers == {"beeExpress", "beeEdge"}
FetchHandlers == BeeHandlers \cup {"plainExpress"}
BrowserHandlers == {"puppeteerExpress", "puppeteerNext", "playwrightEdge", "puppeteerEdge"}
Handlers == FetchHandlers \cup BrowserHandlers

\* Handlers that begin with `if (req.method !== 'GET')`; the Express routers
\* are mounted with router.get and never see another method.
ChecksMethod(h) == h \in {"beeEdge", "puppeteerNext", "playwrightEdge", "puppeteerEdge"}

Methods(h) == IF ChecksMethod(h) THEN {"GET", "POST"} ELSE {"GET"}

PageUrls == { <<"https:", "//", "site", "/">>, <<"http:", "//", "SITE", "/">> }

\* Handlers that test `typeof url !== 'string'`.
ChecksUrlType(h) == h \in {"puppeteerExpress", "puppeteerNext"}

\* A url parameter that is a string but not an absolute URL.
NotAbsoluteUrl == <<"site">>

UrlParams(h) ==
    IF h = "puppeteerExpress" THEN PageUrls \cup {<<>>, ArrayValue, NotAbsoluteUrl}
    ELSE IF h = "puppeteerNext" THEN {<<"https:", "//", "site", "/">>, <<>>, ArrayValue}
    ELSE {<<"https:", "//", "site", "/">>, <<>>}

\* Only the Puppeteer Express handler reads req.query.brand.
BrandParams(h) ==
    IF h = "puppeteerExpress"
    THEN {Undefined, ArrayValue, <<>>, <<"acme">>, <<"ACME">>, <<"cdn">>}
    ELSE {Undefined}

ApiKeys(h) == IF h \in BeeHandlers THEN BOOLEAN ELSE {FALSE}

\* The <img> elements pages are built from.
ImgPool ==
    { Img(<<"/", "logo">>, <<>>, <<>>),
      Img(<<"/", "hero">>, <<>>, <<>>),
      Img(<<"/", "hero">>, <<"Logo">>, <<>>),
      Img(<<"https:", "//", "cdn", "/", "logo">>, <<>>, <<>>),
      Img(<<"https:", "//", "cdn", "/", "ACME">>, <<>>, <<"brand">>),
      Img(<<"https:", "//", "CDN", "/", "acme", "logo">>, <<>>, <<>>),
      Img(<<"//", "SITE", "/", "LOGO">>, <<>>, <<>>),
      Img(<<"data:", "acme", "logo">>, <<>>, <<>>),
      Img(<<"http:", "//">>, <<"logo">>, <<>>),
      Img(<<>>, <<>>, <<"logo">>) }

Docs == UNION { [1..n -> ImgPool] : n \in 0..MaxImgs }

Statuses == {200, 404, 503}

\* response.ok
ok(status) == status \in 200..299

NoBody == [tier |-> -1, challenge |-> FALSE]
NoResponse == [status |-> 0, body |-> NoBody, read |-> FALSE]
NoErr == [kind |-> "none", status |-> 0, body |-> NoBody]
NoRes == [status |-> 0, error |-> "", message |-> NoErr, logo |-> <<>>]

\* An awaited operation: fetch and response.text() are called without an
\* AbortSignal (timeout 0), page.goto with an explicit timeout.
Op(kind, t, ms) == [op |-> kind, tier |-> t, timeout |-> ms]

\* Index of the last strategy a handler tries.
LastTier(h) == IF h \in BeeHandlers THEN NumTiers - 1 ELSE 0

\* No request has arrived at any handler.
HandlerIdle ==
    /\ handler = "none"
    /\ pc = "idle"
    /\ method = "GET"
    /\ url = <<>>
    /\ brand = Undefined
    /\ apiKey = FALSE
    /\ tier = 0
    /\ fetchCalls = 0
    /\ pending = {}
    /\ responses = [t \in 0..(NumTiers - 1) |-> NoResponse]
    /\ html = NoBody
    /\ parsed = NoBody
    /\ browser = "none"
    /\ doc = <<>>
    /\ logo = <<>>
    /\ err = NoErr
    /\ res = NoRes

Init ==
    /\ HandlerIdle
    /\ fn = "none"
    /\ input = <<>>
    /\ output = <<>>
    /\ phase = "idle"

\* A request arrives at one of the handlers.
Receive ==
    /\ pc = "idle"
    /\ \E h \in Handlers :
         /\ handler' = h
         /\ method' \in Methods(h)
         /\ url' \in UrlParams(h)
         /\ brand' \in BrandParams(h)
         /\ apiKey' \in ApiKeys(h)
    /\ pc' = "validate"
    /\ UNCHANGED <<escVars, pending, browser, logoVars, err, res>>
    /\ UNCHANGED fnVars

\* if (req.method !== 'GET') return 405
RejectMethod ==
    /\ pc = "validate"
    /\ ChecksMethod(handler)
    /\ method # "GET"
    /\ res' = [NoRes EXCEPT !.status = 405, !.error = "Method not allowed"]
    /\ pc' = "done"
    /\ UNCHANGED <<reqVars, escVars, pending, browser, logoVars, err>>
    /\ UNCHANGED fnVars

MethodAccepted == ChecksMethod(handler) => method = "GET"

\* if (!url) ... / if (!url || typeof url !== 'string') ...
UrlAccepted ==
    /\ Truthy(url)
    /\ ChecksUrlType(handler) => IsString(url)

RejectUrl ==
    /\ pc = "validate"
    /\ MethodAccepted
    /\ ~UrlAccepted
    /\ res' = [NoRes EXCEPT !.status = 400, !.error = "Missing URL parameter"]
    /\ pc' = "done"
    /\ UNCHANGED <<reqVars, escVars, pending, browser, logoVars, err>>
    /\ UNCHANGED fnVars

\* if (!apiKey) throw new Error('ScrapingBee API key is not configured')
RejectConfig ==
    /\ pc = "validate"
    /\ handler \in BeeHandlers
    /\ MethodAccepted
    /\ UrlAccepted
    /\ ~apiKey
    /\ err' = [NoErr EXCEPT !.kind = "config"]
    /\ pc' = "catch"
    /\ UNCHANGED <<reqVars, escVars, pending, browser, logoVars, res>>
    /\ UNCHANGED fnVars

-----------------------------------------------------------------------------
(* Fetch escalation (src/unnamed/part_000, part_006; src/src/api/scrape.ts) *)

\* BeginFetch without the test of the API key.
BeginFetch_NoKeyCheck ==
    /\ pc = "validate"
    /\ handler \in FetchHandlers
    /\ MethodAccepted
    /\ UrlAccepted
    /\ tier' = 0
    /\ pc' = "issue"
    /\ UNCHANGED <<reqVars, fetchCalls, responses, html, parsed, pending, browser,
                   logoVars, err, res>>
    /\ UNCHANGED fnVars

\* The url and the key are present: the first strategy is prepared.
BeginFetch ==
    /\ pc = "validate"
    /\ handler \in FetchHandlers
    /\ MethodAccepted
    /\ UrlAccepted
    /\ handler \in BeeHandlers => apiKey
    /\ tier' = 0
    /\ pc' = "issue"
    /\ UNCHANGED <<reqVars, fetchCalls, responses, html, parsed, pending, browser,
                   logoVars, err, res>>
    /\ UNCHANGED fnVars

\* IssueFetch without `await`: the call is made and the handler moves on to
\* the next strategy while the promise is still pending.
IssueFetch_NotAwaited ==
    /\ pc = "issue"
    /\ fetchCalls' = fetchCalls + 1
    /\ pending' = pending \cup {Op("fetch", tier, 0)}
    /\ IF tier < LastTier(handler)
       THEN tier' = tier + 1 /\ pc' = "issue"
       ELSE tier' = tier /\ pc' = "await"
    /\ UNCHANGED <<reqVars, responses, html, parsed, browser, logoVars, err, res>>
    /\ UNCHANGED fnVars

\* response = await fetch(scrapingBeeUrl): the call is made and awaited.
IssueFetch ==
    /\ pc = "issue"
    /\ fetchCalls' = fetchCalls + 1
    /\ pending' = pending \cup {Op("fetch", tier, 0)}
    /\ pc' = "await"
    /\ UNCHANGED <<reqVars, tier, responses, html, parsed, browser, logoVars, err, res>>
    /\ UNCHANGED fnVars

\* The remote side answers: the fetch promise resolves with a Response whose
\* status and (still unread) body the remote side chooses.
FetchResolve ==
    /\ pc = "await"
    /\ Op("fetch", tier, 0) \in pending
    /\ \E st \in Statuses, ch \in BOOLEAN :
         responses' = [responses EXCEPT ![tier] =
                          [status |-> st,
                           body |-> [tier |-> tier, challenge |-> ch],
                           read |-> FALSE]]
    /\ pending' = pending \ {Op("fetch", tier, 0)}
    /\ pc' = "check"
    /\ UNCHANGED <<reqVars, tier, fetchCalls, html, parsed, browser, logoVars, err, res>>
    /\ UNCHANGED fnVars

\* Network failure: the fetch promise rejects and the handler's try block is left.
FetchReject ==
    /\ pc = "await"
    /\ Op("fetch", tier, 0) \in pending
    /\ pending' = pending \ {Op("fetch", tier, 0)}
    /\ err' = [NoErr EXCEPT !.kind = "network"]
    /\ pc' = "catch"
    /\ UNCHANGED <<reqVars, escVars, browser, logoVars, res>>
    /\ UNCHANGED fnVars

\* EscalateTier without the `if (!response.ok)` test: the next strategy is
\* requested whatever the previous one returned.
EscalateTier_Unconditional ==
    /\ pc = "check"
    /\ tier < LastTier(handler)
    /\ tier' = tier + 1
    /\ pc' = "issue"
    /\ UNCHANGED <<reqVars, fetchCalls, responses, html, parsed, pending, browser,
                   logoVars, err, res>>
    /\ UNCHANGED fnVars

\* if (!response.ok) { ...set('premium_proxy' | 'render_js')...; fetch again }
EscalateTier ==
    /\ pc = "check"
    /\ ~ok(responses[tier].status)
    /\ tier < LastTier(handler)
    /\ tier' = tier + 1
    /\ pc' = "issue"
    /\ UNCHANGED <<reqVars, fetchCalls, responses, html, parsed, pending, browser,
                   logoVars, err, res>>
    /\ UNCHANGED fnVars

\* Plain fetch: if (!response.ok) throw new Error(`Failed to fetch URL: ${status}`)
PlainThrow ==
    /\ pc = "check"
    /\ handler = "plainExpress"
    /\ ~ok(responses[tier].status)
    /\ err' = [NoErr EXCEPT !.kind = "fetchFailed", !.status = responses[tier].status]
    /\ pc' = "catch"
    /\ UNCHANGED <<reqVars, escVars, pending, browser, logoVars, res>>
    /\ UNCHANGED fnVars

\* No (further) retry applies: const html = await response.text() is started.
StartText ==
    /\ pc = "check"
    /\ \/ ok(responses[tier].status)
       \/ handler \in BeeHandlers /\ tier = LastTier(handler)
    /\ pending' = pending \cup {Op("text", tier, 0)}
    /\ pc' = "text"
    /\ UNCHANGED <<reqVars, escVars, browser, logoVars, err, res>>
    /\ UNCHANGED fnVars

\* The body of the current response has been read completely.
ReadText ==
    /\ pc = "text"
    /\ Op("text", tier, 0) \in pending
    /\ html' = responses[tier].body
    /\ responses' = [responses EXCEPT ![tier].read = TRUE]
    /\ pending' = pending \ {Op("text", tier, 0)}
    /\ pc' = "final"
    /\ UNCHANGED <<reqVars, tier, fetchCalls, parsed, browser, logoVars, err, res>>
    /\ UNCHANGED fnVars

\* The connection breaks while the body is read: response.text() rejects.
TextReject ==
    /\ pc = "text"
    /\ Op("text", tier, 0) \in pending
    /\ pending' = pending \ {Op("text", tier, 0)}
    /\ err' = [NoErr EXCEPT !.kind = "bodyRead"]
    /\ pc' = "catch"
    /\ UNCHANGED <<reqVars, escVars, browser, logoVars, res>>
    /\ UNCHANGED fnVars

\* if (!response.ok) throw new Error(`ScrapingBee API failed: ${status} - ${html}`)
ThrowExhausted ==
    /\ pc = "final"
    /\ ~ok(responses[tier].status)
    /\ err' = [kind |-> "beeFailed", status |-> responses[tier].status, body |-> html]
    /\ pc' = "catch"
    /\ UNCHANGED <<reqVars, escVars, pending, browser, logoVars, res>>
    /\ UNCHANGED fnVars

\* const $ = cheerio.load(html); the token set is extracted and sent.
Extract ==
    /\ pc = "final"
    /\ ok(responses[tier].status)
    /\ parsed' = html
    /\ res' = [NoRes EXCEPT !.status = 200]
    /\ pc' = "done"
    /\ UNCHANGED <<reqVars, tier, fetchCalls, responses, html, pending, browser,
                   logoVars, err>>
    /\ UNCHANGED fnVars

-----------------------------------------------------------------------------
(* The catch blocks *)

\* Handlers whose 500 response carries error.message; the ScrapingBee Express
\* handler only logs the error.
SendsMessage(h) == h # "beeExpress"

\* Handlers whose catch block calls browser.close().
CatchClosesBrowser(h) == h \in {"puppeteerExpress", "playwrightEdge", "puppeteerEdge"}

CatchError(h) == IF h = "plainExpress" THEN "Failed to fetch URL" ELSE "Failed to scrape website"

Catch ==
    /\ pc = "catch"
    /\ browser' = IF CatchClosesBrowser(handler) /\ browser = "open" THEN "closed" ELSE browser
    /\ res' = [NoRes EXCEPT !.status = 500,
                            !.error = CatchError(handler),
                            !.message = IF SendsMessage(handler) THEN err ELSE NoErr]
    /\ pc' = "done"
    /\ UNCHANGED <<reqVars, escVars, pending, logoVars, err>>
    /\ UNCHANGED fnVars

-----------------------------------------------------------------------------
(* Headless-browser handlers (src/api/scrape.ts, part_007, part_003, part_005) *)

\* Handlers that launch the browser and open the page inside their try block;
\* the Puppeteer Express handler does both before `try {`.
SetupInsideTry(h) == h # "puppeteerExpress"

\* Handlers with a step between newPage and goto: setUserAgent, page.route,
\* setRequestInterception.
HasSetupStep(h) == h # "puppeteerNext"

\* The timeout option of the handler's page.goto call.
NavigationTimeout(h) == IF h = "puppeteerNext" THEN GotoTimeoutNext ELSE GotoTimeout

\* Where a rejected launch, newPage or setup call is handled: the enclosing
\* catch block, or asyncHandler's next(error).
SetupFailureTarget(h) == IF SetupInsideTry(h) THEN "catch" ELSE "next"

BeginBrowser ==
    /\ pc = "validate"
    /\ handler \in BrowserHandlers
    /\ MethodAccepted
    /\ UrlAccepted
    /\ pc' = "launch"
    /\ UNCHANGED <<reqVars, escVars, pending, browser, logoVars, err, res>>
    /\ UNCHANGED fnVars

\* browser = await puppeteer.launch(...) / chromium.launch()
LaunchResolve ==
    /\ pc = "launch"
    /\ browser' = "open"
    /\ pc' = "newPage"
    /\ UNCHANGED <<reqVars, escVars, pending, logoVars, err, res>>
    /\ UNCHANGED fnVars

LaunchReject ==
    /\ pc = "launch"
    /\ err' = [NoErr EXCEPT !.kind = "launch"]
    /\ pc' = SetupFailureTarget(handler)
    /\ UNCHANGED <<reqVars, escVars, pending, browser, logoVars, res>>
    /\ UNCHANGED fnVars

\* const page = await browser.newPage()
NewPageResolve ==
    /\ pc = "newPage"
    /\ IF HasSetupStep(handler)
       THEN pc' = "setup" /\ pending' = pending
       ELSE pc' = "goto" /\ pending' = pending \cup {Op("goto", 0, NavigationTimeout(handler))}
    /\ UNCHANGED <<reqVars, escVars, browser, logoVars, err, res>>
    /\ UNCHANGED fnVars

NewPageReject ==
    /\ pc = "newPage"
    /\ err' = [NoErr EXCEPT !.kind = "newPage"]
    /\ pc' = SetupFailureTarget(handler)
    /\ UNCHANGED <<reqVars, escVars, pending, browser, logoVars, res>>
    /\ UNCHANGED fnVars

\* await page.setUserAgent(...) / page.route(...) / page.setRequestInterception(true)
SetupResolve ==
    /\ pc = "setup"
    /\ pending' = pending \cup {Op("goto", 0, NavigationTimeout(handler))}
    /\ pc' = "goto"
    /\ UNCHANGED <<reqVars, escVars, browser, logoVars, err, res>>
    /\ UNCHANGED fnVars

SetupReject ==
    /\ pc = "setup"
    /\ err' = [NoErr EXCEPT !.kind = "setup"]
    /\ pc' = SetupFailureTarget(handler)
    /\ UNCHANGED <<reqVars, escVars, pending, browser, logoVars, res>>
    /\ UNCHANGED fnVars

\* await page.goto(url, { waitUntil, timeout }) resolves.
GotoResolve ==
    /\ pc = "goto"
    /\ URLParses(url)
    /\ \E o \in pending : o.op = "goto"
    /\ pending' = {o \in pending : o.op # "goto"}
    /\ pc' = "evaluate"
    /\ UNCHANGED <<reqVars, escVars, browser, logoVars, err, res>>
    /\ UNCHANGED fnVars

\* Navigation fails (DNS, TLS, invalid url): page.goto rejects.
GotoReject ==
    /\ pc = "goto"
    /\ \E o \in pending : o.op = "goto"
    /\ pending' = {o \in pending : o.op # "goto"}
    /\ err' = [NoErr EXCEPT !.kind = "navigation"]
    /\ pc' = "catch"
    /\ UNCHANGED <<reqVars, escVars, browser, logoVars, res>>
    /\ UNCHANGED fnVars

\* The navigation timer fires: page.goto rejects with a TimeoutError.
GotoTimesOut ==
    /\ pc = "goto"
    /\ URLParses(url)
    /\ \E o \in pending : o.op = "goto" /\ o.timeout > 0
    /\ pending' = {o \in pending : o.op # "goto"}
    /\ err' = [NoErr EXCEPT !.kind = "timeout"]
    /\ pc' = "catch"
    /\ UNCHANGED <<reqVars, escVars, browser, logoVars, res>>
    /\ UNCHANGED fnVars

\* page.content() / page.evaluate(...) return the page; only the Puppeteer
\* Express handler goes on to look at its <img> elements.
PageContent ==
    /\ pc = "evaluate"
    /\ IF handler = "puppeteerExpress"
       THEN doc' \in Docs /\ pc' = "logo"
       ELSE doc' = <<>> /\ pc' = "close"
    /\ UNCHANGED <<reqVars, escVars, pending, browser, logo, err, res>>
    /\ UNCHANGED fnVars

\* page.content(), page.evaluate, page.title or page.$eval rejects.
EvaluateReject ==
    /\ pc = "evaluate"
    /\ err' = [NoErr EXCEPT !.kind = "evaluate"]
    /\ pc' = "catch"
    /\ UNCHANGED <<reqVars, escVars, pending, browser, logoVars, res>>
    /\ UNCHANGED fnVars

\* Lines 102-156 of src/api/scrape.ts: candidates, selection, final resolveUrl.
SelectLogo ==
    /\ pc = "logo"
    /\ logo' = selectLogo(url, brand, logoCandidates(doc))
    /\ pc' = "styles"
    /\ UNCHANGED <<reqVars, escVars, pending, browser, doc, err, res>>
    /\ UNCHANGED fnVars

\* The page.evaluate calls for colors, fonts, styles and backgrounds resolve.
StylesResolve ==
    /\ pc = "styles"
    /\ pc' = "close"
    /\ UNCHANGED <<reqVars, escVars, pending, browser, logoVars, err, res>>
    /\ UNCHANGED fnVars

StylesReject ==
    /\ pc = "styles"
    /\ err' = [NoErr EXCEPT !.kind = "evaluate"]
    /\ pc' = "catch"
    /\ UNCHANGED <<reqVars, escVars, pending, browser, logoVars, res>>
    /\ UNCHANGED fnVars

\* await browser.close(); res.json({...})
CloseAndRespond ==
    /\ pc = "close"
    /\ browser' = "closed"
    /\ res' = [NoRes EXCEPT !.status = 200, !.logo = logo]
    /\ pc' = "done"
    /\ UNCHANGED <<reqVars, escVars, pending, logoVars, err>>
    /\ UNCHANGED fnVars

\* asyncHandler: catch (error) { next(error) } -- Express answers 500 and the
\* handler's own catch block is never entered.
NextError ==
    /\ pc = "next"
    /\ res' = [NoRes EXCEPT !.status = 500, !.error = "Internal Server Error"]
    /\ pc' = "done"
    /\ UNCHANGED <<reqVars, escVars, pending, browser, logoVars, err>>
    /\ UNCHANGED fnVars

-----------------------------------------------------------------------------

Next ==
    \/ Receive
    \/ RejectMethod
    \/ RejectUrl
    \/ RejectConfig
    \/ BeginFetch
    \/ IssueFetch
    \/ FetchResolve
    \/ FetchReject
    \/ EscalateTier
    \/ PlainThrow
    \/ StartText
    \/ ReadText
    \/ TextReject
    \/ ThrowExhausted
    \/ Extract
    \/ Catch
    \/ BeginBrowser
    \/ LaunchResolve
    \/ LaunchReject
    \/ NewPageResolve
    \/ NewPageReject
    \/ SetupResolve
    \/ SetupReject
    \/ GotoResolve
    \/ GotoReject
    \/ GotoTimesOut
    \/ PageContent
    \/ EvaluateReject
    \/ SelectLogo
    \/ StylesResolve
    \/ StylesReject
    \/ CloseAndRespond
    \/ NextError

Spec == Init /\ [][Next]_vars

-----------------------------------------------------------------------------
(* Properties of the fetch escalation *)

Tiers == 0..(NumTiers - 1)

\* Tier t's fetch has resolved with a response.
Responded(t) == responses[t] # NoResponse

\* Tier k is the first tier that returned a 2xx response.
FirstSuccess(k) ==
    /\ Responded(k)
    /\ ok(responses[k].status)
    /\ \A j \in 0..(k - 1) : Responded(j) /\ ~ok(responses[j].status)

\* C1: escalation halts at the first successful tier. In a ScrapingBee
\* handler, once tier k is the first tier to have returned a 2xx response,
\* exactly k+1 fetch calls have been made, no later tier has been or is being
\* requested, the body read and the body parsed are tier k's body, and the
\* request can only end with that body parsed.
C1_HaltsAtFirstSuccess ==
    \A k \in Tiers :
        (handler \in BeeHandlers /\ FirstSuccess(k)) =>
            /\ fetchCalls = k + 1
            /\ tier = k
            /\ \A j \in Tiers : j > k => ~Responded(j)
            /\ \A o \in pending : o.tier = k /\ o.op = "text"
            /\ html \in {NoBody, responses[k].body}
            /\ parsed \in {NoBody, responses[k].body}
            /\ (pc = "done" /\ res.status = 200) => parsed = responses[k].body

\* C1 witness: tier 0 answered 503, tier 1 answered 200; two fetch calls were
\* made and the response was built from tier 1's body.
C1_Witness ==
      ( /\ handler \in BeeHandlers
        /\ pc = "done"
        /\ responses[0].status = 503
        /\ responses[1].status = 200
        /\ ~responses[1].body.challenge
        /\ fetchCalls = 2
        /\ parsed = responses[1].body
        /\ parsed.tier = 1
        /\ res.status = 200 )

\* Every tier returned a non-2xx response and the last body was read.
AllTiersFailed ==
    /\ \A t \in Tiers : Responded(t) /\ ~ok(responses[t].status)
    /\ responses[NumTiers - 1].read

\* C2: escalation exhaustion. When every tier returned a non-2xx response,
\* the response sent to the caller is a failure that carries the final tier's
\* status code and its body.
C2_ExhaustionReportsFinalStatus ==
    (handler \in BeeHandlers /\ pc = "done" /\ AllTiersFailed) =>
        /\ res.status = 500
        /\ res.message.kind = "beeFailed"
        /\ res.message.status = responses[NumTiers - 1].status
        /\ res.message.body = responses[NumTiers - 1].body

\* C3: a tier whose fetch rejects (network error, timeout) is treated like a
\* non-2xx response: the rejection reaches the catch block, and so the caller,
\* only when no tier remains.
C3_NetworkErrorEscalates ==
    (handler \in BeeHandlers /\ pc \in {"catch", "done"} /\ err.kind = "network") =>
        tier = LastTier(handler)

\* C4: a 2xx response whose body carries a bot-challenge signature counts as
\* failed: such a body is parsed for extraction only when it is the last
\* tier's, never while a later tier remains untried.
C4_ChallengeNeverParsedEarly ==
    (handler \in BeeHandlers /\ parsed # NoBody /\ parsed.challenge) =>
        parsed.tier = LastTier(handler)

\* The fetch calls that are in flight.
FetchesInFlight == {o \in pending : o.op = "fetch"}

\* C5 as stated: at most one tier's request is in flight, and tier k+1's
\* request is issued only after tier k's response has been fully read.
C5_NextTierAfterFullRead ==
    /\ Cardinality(FetchesInFlight) <= 1
    /\ \A o \in FetchesInFlight : o.tier > 0 => responses[o.tier - 1].read

\* C5 amended: at most one awaited call is pending at any moment; tier k+1's
\* request is issued only after tier k's fetch has resolved with a non-2xx
\* response, whose body has not been read; the fetch calls made so far are
\* exactly those of tiers 0..tier.
C5_NextTierAfterSettled ==
    /\ Cardinality(pending) <= 1
    /\ \A o \in FetchesInFlight :
          /\ o.tier = tier
          /\ fetchCalls = o.tier + 1
          /\ \A j \in 0..(o.tier - 1) :
                /\ Responded(j)
                /\ ~ok(responses[j].status)
                /\ ~responses[j].read

\* C5 witness: tier 1's request is in flight after tier 0 answered 503, and
\* tier 0's body was never read.
C5_Witness ==
      ( /\ handler \in BeeHandlers
        /\ pc = "await"
        /\ pending = {Op("fetch", 1, 0)}
        /\ responses[0].status = 503
        /\ ~responses[0].read )

-----------------------------------------------------------------------------
(* Properties of the headless-browser handlers *)

\* C6: in every headless-browser handler, once the browser has been
\* launched, it is closed before the handler finishes, on every exit path.
C6_BrowserClosedOnExit ==
    (handler \in BrowserHandlers /\ pc = "done") => browser # "open"

\* C7: every outbound network call and every browser navigation that a
\* handler awaits carries an explicit timeout, so that none can block for ever.
C7_EveryCallHasTimeout ==
    \A o \in pending : o.timeout > 0

-----------------------------------------------------------------------------
(* Properties of the logo selection *)

\* The logo has been selected by the Puppeteer Express handler.
LogoSelected ==
    /\ handler = "puppeteerExpress"
    /\ \/ pc \in {"styles", "close"}
       \/ pc = "done" /\ res.status = 200

\* What a raw reference stands for as an absolute URL of page u: nothing for
\* an empty or data: reference, itself when it names a scheme, u's scheme in
\* front of a protocol-relative one, and u's origin in front of a path.
AbsoluteForm(u, src) ==
    IF src = <<>> THEN <<>>
    ELSE IF src[1] = "data:" THEN <<>>
    ELSE IF src[1] \in Schemes THEN src
    ELSE IF src[1] = "//" THEN <<u[1]>> \o src
    ELSE <<u[1], "//", LowerTok(u[3]), "/">> \o (IF src[1] = "/" THEN Tail(src) ELSE src)

\* The host a raw reference names, compared without regard to case, is the
\* host of page u.
SameHostRef(u, src) ==
    /\ src # <<>>
    /\ src[1] # "data:"
    /\ IF src[1] \in Schemes
       THEN Len(src) >= 3 /\ src[2] = "//" /\ LowerTok(src[3]) = LowerTok(u[3])
       ELSE IF src[1] = "//"
       THEN Len(src) >= 2 /\ LowerTok(src[2]) = LowerTok(u[3])
       ELSE TRUE

\* The i-th <img> of the page is a logo-like candidate on the page's host.
SameHostCandidate(i) == IsLogoLike(doc[i]) /\ SameHostRef(url, doc[i].src)

\* The brand hint is a non-empty string.
BrandSupplied == brand \notin {Undefined, ArrayValue, <<>>}

\* The i-th <img> is a logo-like candidate whose raw reference contains the
\* brand hint, compared without regard to case.
BrandCandidate(i) ==
    /\ IsLogoLike(doc[i])
    /\ BrandSupplied
    /\ \E k \in 1..Len(doc[i].src) : LowerTok(doc[i].src[k]) = LowerTok(brand[1])

\* C8: same-host rule. Whenever a logo-like candidate is on the page's host,
\* the logo is the first such candidate in document order, wherever it sits
\* among the candidates and whatever the brand hint.
C8_SameHostRule ==
    LogoSelected =>
        \A i \in DOMAIN doc :
            (SameHostCandidate(i) /\ \A j \in 1..(i - 1) : ~SameHostCandidate(j)) =>
                /\ logo = AbsoluteForm(url, doc[i].src)
                /\ logo # <<>>
                /\ pc = "done" => res.logo = logo

\* C8 witness: the candidates are [other-host logo matching the brand hint,
\* same-host logo] and the same-host one is the logo.
C8_Witness ==
    /\ LogoSelected
    /\ pc = "done"
    /\ Len(doc) = 2
    /\ BrandCandidate(1)
    /\ IsLogoLike(doc[1])
    /\ ~SameHostRef(url, doc[1].src)
    /\ SameHostCandidate(2)
    /\ res.logo = AbsoluteForm(url, doc[2].src)
    /\ res.logo # AbsoluteForm(url, doc[1].src)

\* C9: brand rule. When no candidate is on the page's host and a brand hint
\* is supplied, the logo is the first candidate in document order whose raw
\* reference contains the brand, compared without regard to case.
C9_BrandRule ==
    (LogoSelected /\ \A j \in DOMAIN doc : ~SameHostCandidate(j)) =>
        \A i \in DOMAIN doc :
            (BrandCandidate(i) /\ \A j \in 1..(i - 1) : ~BrandCandidate(j)) =>
                /\ logo = AbsoluteForm(url, doc[i].src)
                /\ pc = "done" => res.logo = logo

\* C9 witness: two other-host candidates, the hint "acme" matches only the
\* second, written "ACME", and the second is the logo.
C9_Witness ==
    /\ LogoSelected
    /\ pc = "done"
    /\ brand = <<"acme">>
    /\ Len(doc) = 2
    /\ \A j \in DOMAIN doc : IsLogoLike(doc[j]) /\ ~SameHostRef(url, doc[j].src)
    /\ ~BrandCandidate(1)
    /\ BrandCandidate(2)
    /\ doc[1].src # <<>>
    /\ doc[2].src = <<"https:", "//", "cdn", "/", "ACME">>
    /\ res.logo = doc[2].src

\* C10: fallback rule. When neither the same-host rule nor the brand rule
\* matches, the logo is the first candidate in document order as an absolute
\* URL; without any candidate the logo is the empty string, and it is never
\* undefined.
C10_FallbackRule ==
    (LogoSelected /\ \A j \in DOMAIN doc : ~SameHostCandidate(j) /\ ~BrandCandidate(j)) =>
        /\ logo # Undefined
        /\ (\A j \in DOMAIN doc : ~IsLogoLike(doc[j])) => logo = <<>>
        /\ \A i \in DOMAIN doc :
              (IsLogoLike(doc[i]) /\ \A j \in 1..(i - 1) : ~IsLogoLike(doc[j])) =>
                  logo = AbsoluteForm(url, doc[i].src)
        /\ pc = "done" => res.logo = logo

\* C10 witness: a brand hint that matches nothing and two other-host
\* candidates after an image that is no candidate; the first candidate is the logo.
C10_Witness ==
    /\ LogoSelected
    /\ pc = "done"
    /\ BrandSupplied
    /\ Len(doc) = 2
    /\ ~IsLogoLike(doc[1])
    /\ IsLogoLike(doc[2])
    /\ ~SameHostRef(url, doc[2].src)
    /\ ~BrandCandidate(2)
    /\ res.logo = doc[2].src
    /\ URLParses(res.logo)

-----------------------------------------------------------------------------
(* The URL resolver as a function of (base, candidate) *)

handlerVars ==
    <<handler, pc, method, url, brand, apiKey, tier, fetchCalls, pending,
      responses, html, parsed, browser, doc, logo, err, res>>

DataUri == <<"data:", "image/png", ";", "base64", ",", "AAAA">>

\* The variants of resolveUrl in the repository.
ResolveFns == {"resolveUrl", "resolveUrlNext", "resolveUrlMeta", "resolveUrlHref"}

Resolve(f, base, u) ==
    CASE f = "resolveUrl" -> resolveUrl(base, u)
      [] f = "resolveUrlNext" -> resolveUrlNext(base, u)
      [] f = "resolveUrlMeta" -> resolveUrlMeta(base, u)
      [] f = "resolveUrlHref" -> resolveUrlHref(base, u)

\* Page URLs handed to the resolver as base; the third one has no scheme.
ResolveBases ==
    { <<"https:", "//", "site", "/">>,
      <<"http:", "//", "SITE:8080", "/", "dir", "/", "page">>,
      <<"http:", "//", "cdn">>,
      <<"site">> }

\* References found in a document.
ResolveCandidates ==
    { Undefined, <<>>, DataUri,
      <<"https:", "//", "site", "/", "logo">>,
      <<"http:", "//", "cdn", "/", "img", "/", "logo">>,
      <<"https:", "//", "CDN", "/", "logo">>,
      <<"http:", "//", "site:8080">>,
      <<"http:", "//">>,
      <<"https:", "//", "bad host", "/", "logo">>,
      <<"httpdocs", "/", "logo">>,
      <<"//", "cdn", "/", "logo">>,
      <<"//">>,
      <<"//", "bad host", "/", "logo">>,
      <<"/", "img", "/", "logo">>,
      <<"logo">>,
      <<"img", "/", "logo">> }

ResolveInit ==
    /\ HandlerIdle
    /\ fn \in ResolveFns
    /\ input \in [base : ResolveBases, url : ResolveCandidates]
    /\ output = <<>>
    /\ phase = "input"

\* One call resolveUrl(base, url).
ApplyResolve ==
    /\ phase = "input"
    /\ fn \in ResolveFns
    /\ output' = Resolve(fn, input.base, input.url)
    /\ phase' = "output"
    /\ UNCHANGED <<fn, input>>
    /\ UNCHANGED handlerVars

ResolveNext == ApplyResolve

ResolveSpec == ResolveInit /\ [][ResolveNext]_vars

Resolved == phase = "output" /\ fn \in ResolveFns

\* C12: for every valid absolute http(s) URL u and every base b, the
\* resolver returns u itself, token for token, with no normalisation.
C12_AbsoluteUnchanged ==
    (Resolved /\ URLParses(input.url)) => output = input.url

\* The candidate names a scheme or an authority and does not parse, or it
\* needs the base and the base does not parse.
MalformedInput(base, u) ==
    /\ Truthy(u)
    /\ ~startsWith(u, <<"data:">>)
    /\ IF u[1] \in Schemes THEN ~URLParses(u)
       ELSE IF u[1] = "//" THEN ~URLParses(<<"https:">> \o u) \/ ~URLParses(base)
       ELSE ~URLParses(base)

\* C13: the resolver answers the empty string for every malformed input
\* (candidate or base that does not parse, also when the candidate begins
\* with http or //), and never answers a string that is not a valid URL.
C13_MalformedYieldsEmpty ==
    Resolved =>
        /\ MalformedInput(input.base, input.url) => output = <<>>
        /\ output = <<>> \/ URLParses(output) \/ startsWith(output, <<"data:">>)

IsProtocolRelative(u) == Truthy(u) /\ u[1] = "//"

IsRelativePath(u) ==
    Truthy(u) /\ u[1] \notin Schemes /\ u[1] # "//" /\ u[1] # "data:"

-----------------------------------------------------------------------------
(* Inline style declarations and the regular expressions that read them *)

MaxDecls == 2

SetMin(S) == CHOOSE x \in S : \A y \in S : x <= y
SetMax(S) == CHOOSE x \in S : \A y \in S : y <= x

\* String.prototype.trim: white space is the token " ".
trim(s) ==
    LET inked == {i \in DOMAIN s : s[i] # " "}
    IN IF inked = {} THEN <<>> ELSE SubSeq(s, SetMin(inked), SetMax(inked))

\* The text of token t ends with the pattern's property name, letter case
\* ignored (flag i); the pattern background(?:-color)? accepts both names.
NameEndsWith(t, p) ==
    LET l == LowerTok(t)
    IN \/ l = p
       \/ p = "color" /\ l = "background-color"
       \/ p = "background(?:-color)?" /\ l \in {"background", "background-color"}

\* The tokens after position i + 1 up to the next ";" or the end.
DeclSegment(style, i) ==
    LET rest == SubSeq(style, i + 2, Len(style))
        semis == {j \in DOMAIN rest : rest[j] = ";"}
    IN IF semis = {} THEN rest ELSE SubSeq(rest, 1, SetMin(semis) - 1)

\* What ([^;]+) captures when <name>:\s* matches at token i, Undefined when
\* the pattern does not match there: \s* gives up its last white space when
\* nothing else is left for the group.
RegexCapture(style, i) ==
    LET seg == DeclSegment(style, i)
        inked == {j \in DOMAIN seg : seg[j] # " "}
    IN IF seg = <<>> THEN Undefined
       ELSE IF inked = {} THEN <<" ">>
       ELSE SubSeq(seg, SetMin(inked), Len(seg))

\* style.match(/<p>:\s*([^;]+)/i)?.[1]: the leftmost match, which may start
\* in the middle of a longer property name.
matchProperty(style, p) ==
    LET hits == {i \in 1..(Len(style) - 1) :
                    /\ NameEndsWith(style[i], p)
                    /\ style[i + 1] = ":"
                    /\ RegexCapture(style, i) # Undefined}
    IN IF hits = {} THEN Undefined ELSE RegexCapture(style, SetMin(hits))

\* extractCssValue(style, property)
extractCssValue(style, p) ==
    LET m == matchProperty(style, p)
    IN IF m = Undefined THEN <<>> ELSE trim(m)

\* Declarations of a style attribute.
CssDecls ==
    { <<"color", ":", "#fff">>,
      <<"background-color", ":", " ", "red">>,
      <<"COLOR", ":", "blue", " ">>,
      <<"padding", ":", " ", "0.5rem", " ", "1rem">>,
      <<"color", ":", " ">> }

RECURSIVE JoinDecls(_)
JoinDecls(ds) ==
    IF ds = <<>> THEN <<>>
    ELSE IF Len(ds) = 1 THEN ds[1]
    ELSE ds[1] \o <<";", " ">> \o JoinDecls(Tail(ds))

StyleBlocks ==
    {JoinDecls(ds) : ds \in UNION {[1..n -> CssDecls] : n \in 0..MaxDecls}}

CssProperties == {"color", "background-color", "padding"}

CssInit ==
    /\ HandlerIdle
    /\ fn = "extractCssValue"
    /\ input \in [style : StyleBlocks, property : CssProperties]
    /\ output = <<>>
    /\ phase = "input"

\* One call extractCssValue(style, property).
ApplyExtractCssValue ==
    /\ phase = "input"
    /\ fn = "extractCssValue"
    /\ output' = extractCssValue(input.style, input.property)
    /\ phase' = "output"
    /\ UNCHANGED <<fn, input>>
    /\ UNCHANGED handlerVars

CssNext == ApplyExtractCssValue

CssSpec == CssInit /\ [][CssNext]_vars

\* The positions of the declarations whose name is exactly p.
DeclaredAt(style, p) ==
    {i \in 1..(Len(style) - 1) : LowerTok(style[i]) = p /\ style[i + 1] = ":"}

\* C16: extractCssValue answers the trimmed value, up to the next ";" or the
\* end, of the declaration whose name is exactly the requested property
\* (letter case ignored), and the empty string when the block has no such
\* declaration, also when it has a property whose name ends with the
\* requested one.
C16_ExactPropertyValue ==
    (phase = "output" /\ fn = "extractCssValue") =>
        LET at == DeclaredAt(input.style, input.property)
        IN IF at = {} THEN output = <<>>
           ELSE output = trim(DeclSegment(input.style, SetMin(at)))

-----------------------------------------------------------------------------
(* Style extraction over the elements of a document *)

MaxEls == 3

\* An element: its tag and the tokens of its style attribute.
El(t, st) == [tag |-> t, style |-> st]

StyleEls ==
    { El("button", <<"background-color", ":", "#111", ";", "color", ":", "#fff">>),
      El("button", <<>>),
      El("button", <<"color", ":", "#fff", ";", "padding", ":", " ", "0">>),
      El("h1", <<"font-family", ":", " ", "\"", "Inter", "\"", ",", " ", "Arial">>),
      El("h1", <<"color", ":", " ", "inherit", ";", "font-family", ":", "Arial">>),
      El("div", <<"color", ":", " ", "transparent", " ", ";", "background", ":",
                  " ", "rgba(0, 0, 0, 0)">>),
      El("div", <<"background-color", ":", "transparent", ";", "font-family", ":",
                  "Inter", ",", "Arial">>) }

StyleDocs == UNION {[1..n -> StyleEls] : n \in 0..MaxEls}

\* str.split(sep) on tokens.
RECURSIVE Split(_, _)
Split(s, sep) ==
    LET at == {i \in DOMAIN s : s[i] = sep}
    IN IF at = {} THEN <<s>>
       ELSE <<SubSeq(s, 1, SetMin(at) - 1)>>
                \o Split(SubSeq(s, SetMin(at) + 1, Len(s)), sep)

\* cheerio's $(el).css(prop): the style attribute is split at ";", each
\* piece at its first ":", name and value are trimmed, the last declaration
\* of a name wins; undefined when the name is not declared.
css(style, p) ==
    LET pieces == Split(style, ";")
        colon(k) == SetMin({i \in DOMAIN pieces[k] : pieces[k][i] = ":"})
        declares(k) ==
            /\ \E i \in DOMAIN pieces[k] : pieces[k][i] = ":"
            /\ colon(k) > 1
            /\ colon(k) < Len(pieces[k])
            /\ trim(SubSeq(pieces[k], 1, colon(k) - 1)) = <<p>>
        found == {k \in DOMAIN pieces : declares(k)}
    IN IF found = {} THEN Undefined
       ELSE LET k == SetMax(found)
            IN trim(SubSeq(pieces[k], colon(k) + 1, Len(pieces[k])))

\* value || fallback
OrDefault(v, fallback) == IF v = Undefined \/ v = <<>> THEN fallback ELSE v

\* The value a browser computes from a declared one: colours are serialised
\* as rgb()/rgba(), quotes around a family name that is an identifier go.
ComputedToken(t) ==
    CASE t = "#111" -> "rgb(17, 17, 17)"
      [] t = "#fff" -> "rgb(255, 255, 255)"
      [] t = "transparent" -> "rgba(0, 0, 0, 0)"
      [] t = "0" -> "0px"
      [] OTHER -> t

\* getComputedStyle(el)[p]: the declared value in computed form, or what the
\* user-agent style sheet gives an element that declares nothing.
computedStyle(style, p) ==
    LET v == css(style, p)
    IN IF v = Undefined THEN <<"<ua>", p>>
       ELSE LET kept == SelectSeq(v, LAMBDA t : t # "\"")
            IN [i \in DOMAIN kept |-> ComputedToken(kept[i])]

\* Array.from(new Set(list)): the first occurrence of each value stays.
RECURSIVE Dedup(_)
Dedup(list) ==
    IF list = <<>> THEN <<>>
    ELSE LET front == Dedup(SubSeq(list, 1, Len(list) - 1))
             last == list[Len(list)]
         IN IF \E i \in DOMAIN front : front[i] = last THEN front
            ELSE Append(front, last)

IsButton(el) == el.tag = "button"
IsHeading(el) == el.tag = "h1"

ButtonDefaults ==
    [backgroundColor |-> <<"#4F46E5">>, color |-> <<"#FFFFFF">>,
     padding |-> <<"0.75rem", " ", "1.5rem">>, borderRadius |-> <<"0.375rem">>]

HeaderDefaults ==
    [fontSize |-> <<"1rem">>, fontWeight |-> <<"600">>,
     color |-> <<"#111827">>, fontFamily |-> <<"system-ui">>]

\* The record built from a button's style attribute with the patterns
\* /background-color:.../i, /color:.../i, /padding:.../i, /border-radius:.../i.
buttonStyleMatch(el) ==
    [backgroundColor |-> OrDefault(matchProperty(el.style, "background-color"),
                                   ButtonDefaults.backgroundColor),
     color |-> OrDefault(matchProperty(el.style, "color"), ButtonDefaults.color),
     padding |-> OrDefault(matchProperty(el.style, "padding"), ButtonDefaults.padding),
     borderRadius |-> OrDefault(matchProperty(el.style, "border-radius"),
                                ButtonDefaults.borderRadius)]

\* The record the ScrapingBee Express handler builds with $(el).css.
buttonStyleCss(el) ==
    [backgroundColor |-> OrDefault(css(el.style, "background-color"),
                                   ButtonDefaults.backgroundColor),
     color |-> OrDefault(css(el.style, "color"), ButtonDefaults.color),
     padding |-> OrDefault(css(el.style, "padding"), ButtonDefaults.padding),
     borderRadius |-> OrDefault(css(el.style, "border-radius"),
                                ButtonDefaults.borderRadius)]

\* The record the Puppeteer Express handler reads from getComputedStyle.
buttonStyleComputed(el) ==
    [backgroundColor |-> computedStyle(el.style, "background-color"),
     color |-> computedStyle(el.style, "color"),
     padding |-> computedStyle(el.style, "padding"),
     borderRadius |-> computedStyle(el.style, "border-radius")]

MapEls(d, keep(_), f(_)) ==
    LET kept == SelectSeq(d, keep)
    IN [i \in DOMAIN kept |-> f(kept[i])]

\* buttonStyles of each handler.
buttonStyles(h, d) ==
    CASE h = "plainExpress" -> Dedup(MapEls(d, IsButton, buttonStyleMatch))
      [] h = "beeEdgeStyles" -> MapEls(d, IsButton, buttonStyleMatch)
      [] h = "beeExpress" -> Dedup(MapEls(d, IsButton, buttonStyleCss))
      [] h = "puppeteerExpress" -> MapEls(d, IsButton, buttonStyleComputed)

\* fontFamily.replace(/['"]/g, '')
stripQuotes(v) == SelectSeq(v, LAMBDA t : t # "\"" /\ t # "'")

\* fontFamily.split(',')[0].trim()
firstFamily(v) == trim(Split(v, ",")[1])

\* The heading record of the ScrapingBee Express handler.
headerStyleCss(el) ==
    [fontSize |-> OrDefault(css(el.style, "font-size"), HeaderDefaults.fontSize),
     fontWeight |-> OrDefault(css(el.style, "font-weight"), HeaderDefaults.fontWeight),
     color |-> OrDefault(css(el.style, "color"), HeaderDefaults.color),
     fontFamily |-> stripQuotes(OrDefault(css(el.style, "font-family"),
                                          HeaderDefaults.fontFamily))]

\* The heading record of the Puppeteer Express handler.
headerStyleComputed(el) ==
    [fontSize |-> computedStyle(el.style, "font-size"),
     fontWeight |-> computedStyle(el.style, "font-weight"),
     color |-> computedStyle(el.style, "color"),
     fontFamily |-> firstFamily(computedStyle(el.style, "font-family"))]

\* The heading record of the plain fetch handler, read with the patterns
\* /font-size:.../i, /font-weight:.../i, /color:.../i, /font-family:.../i.
headerStyleMatch(el) ==
    [fontSize |-> OrDefault(matchProperty(el.style, "font-size"), HeaderDefaults.fontSize),
     fontWeight |-> OrDefault(matchProperty(el.style, "font-weight"),
                              HeaderDefaults.fontWeight),
     color |-> OrDefault(matchProperty(el.style, "color"), HeaderDefaults.color),
     fontFamily |-> OrDefault(matchProperty(el.style, "font-family"),
                              HeaderDefaults.fontFamily)]

\* headerStyles of each handler.
headerStyles(h, d) ==
    CASE h = "beeExpress" -> Dedup(MapEls(d, IsHeading, headerStyleCss))
      [] h = "plainExpress" -> Dedup(MapEls(d, IsHeading, headerStyleMatch))
      [] h = "puppeteerExpress" -> MapEls(d, IsHeading, headerStyleComputed)

RECURSIVE Flatten(_)
Flatten(lists) ==
    IF lists = <<>> THEN <<>> ELSE lists[1] \o Flatten(Tail(lists))

\* if (value && value !== 'transparent') colors.add(value)
AddColor(v) == IF v = Undefined \/ v = <<>> \/ v = <<"transparent">> THEN <<>> ELSE <<v>>

\* $('[style*="color"], [style*="background"]'): the attribute's text holds
\* one of the two words.
HasColorStyle(el) ==
    \E i \in DOMAIN el.style : el.style[i] \in {"color", "background-color", "background"}

colorsMatch(el) ==
    AddColor(matchProperty(el.style, "color"))
        \o AddColor(matchProperty(el.style, "background(?:-color)?"))

colorsCss(el) ==
    AddColor(css(el.style, "color")) \o AddColor(css(el.style, "background-color"))

AnyEl(el) == TRUE

\* colors of each handler.
colors(h, d) ==
    CASE h = "plainExpress" -> Dedup(Flatten(MapEls(d, HasColorStyle, colorsMatch)))
      [] h = "beeExpress" -> Dedup(Flatten(MapEls(d, AnyEl, colorsCss)))

\* $('[style*="font-family"]')
HasFontStyle(el) == \E i \in DOMAIN el.style : el.style[i] = "font-family"

AddFont(v) == IF v = Undefined \/ v = <<>> THEN <<>> ELSE <<v>>

fontMatch(el) ==
    LET font == matchProperty(el.style, "font-family")
    IN IF font = Undefined THEN <<>> ELSE AddFont(stripQuotes(font))

fontCss(el) ==
    LET fontFamily == css(el.style, "font-family")
    IN IF fontFamily = Undefined THEN <<>> ELSE AddFont(stripQuotes(fontFamily))

fontComputed(el) == AddFont(firstFamily(computedStyle(el.style, "font-family")))

\* document.querySelectorAll('*') starts with the root element.
AllElements(d) == <<El("html", <<>>)>> \o d

\* fonts of each handler.
fonts(h, d) ==
    CASE h = "plainExpress" -> Dedup(Flatten(MapEls(d, HasFontStyle, fontMatch)))
      [] h = "beeExpress" -> Dedup(Flatten(MapEls(d, AnyEl, fontCss)))
      [] h = "puppeteerExpress" -> Dedup(Flatten(MapEls(AllElements(d), AnyEl, fontComputed)))

\* The handlers that compute each field.
StyleHandlers(field) ==
    CASE field = "buttonStyles" ->
             {"plainExpress", "beeEdgeStyles", "beeExpress", "puppeteerExpress"}
      [] field = "headerStyles" -> {"beeExpress", "plainExpress", "puppeteerExpress"}
      [] field = "colors" -> {"plainExpress", "beeExpress"}
      [] field = "fonts" -> {"plainExpress", "beeExpress", "puppeteerExpress"}

StyleFields == {"buttonStyles", "headerStyles", "colors", "fonts"}

StyleInit ==
    /\ HandlerIdle
    /\ fn \in StyleFields
    /\ \E h \in StyleHandlers(fn), d \in StyleDocs : input = [handler |-> h, doc |-> d]
    /\ output = <<>>
    /\ phase = "input"

ExtractButtonStyles ==
    /\ phase = "input"
    /\ fn = "buttonStyles"
    /\ output' = buttonStyles(input.handler, input.doc)
    /\ phase' = "output"
    /\ UNCHANGED <<fn, input>>
    /\ UNCHANGED handlerVars

ExtractHeaderStyles ==
    /\ phase = "input"
    /\ fn = "headerStyles"
    /\ output' = headerStyles(input.handler, input.doc)
    /\ phase' = "output"
    /\ UNCHANGED <<fn, input>>
    /\ UNCHANGED handlerVars

ExtractColors ==
    /\ phase = "input"
    /\ fn = "colors"
    /\ output' = colors(input.handler, input.doc)
    /\ phase' = "output"
    /\ UNCHANGED <<fn, input>>
    /\ UNCHANGED handlerVars

ExtractFonts ==
    /\ phase = "input"
    /\ fn = "fonts"
    /\ output' = fonts(input.handler, input.doc)
    /\ phase' = "output"
    /\ UNCHANGED <<fn, input>>
    /\ UNCHANGED handlerVars

StyleNext ==
    \/ ExtractButtonStyles
    \/ ExtractHeaderStyles
    \/ ExtractColors
    \/ ExtractFonts

StyleSpec == StyleInit /\ [][StyleNext]_vars

BuyButton ==
    El("button", <<"background-color", ":", "#111", ";", "color", ":", "#fff">>)

\* C17: for a document that holds the button
\* <button style="background-color:#111;color:#fff"> three times, buttonStyles
\* has exactly one entry: backgroundColor #111, color #fff, padding and
\* borderRadius at their defaults 0.75rem 1.5rem and 0.375rem.
C17_ThreeButtonsOneEntry ==
    ( /\ phase = "output"
      /\ fn = "buttonStyles"
      /\ input.handler \in {"plainExpress", "beeEdgeStyles"}
      /\ input.doc = <<BuyButton, BuyButton, BuyButton>> ) =>
        output = << [backgroundColor |-> <<"#111">>, color |-> <<"#fff">>,
                     padding |-> <<"0.75rem", " ", "1.5rem">>,
                     borderRadius |-> <<"0.375rem">>] >>

\* The records of the elements taken one at a time, in document order.
ElementRecords(field, h, d) ==
    Flatten([i \in DOMAIN d |->
                IF field = "buttonStyles" THEN buttonStyles(h, <<d[i]>>)
                ELSE headerStyles(h, <<d[i]>>)])

NoDuplicates(list) ==
    \A i, j \in DOMAIN list : list[i] = list[j] => i = j

\* C18: buttonStyles and headerStyles hold no two records equal on all
\* fields, and the records stand in the order in which each distinct record
\* was first seen in the document.
C18_StyleRecordsDeduplicated ==
    ( /\ phase = "output"
      /\ fn \in {"buttonStyles", "headerStyles"}
      /\ input.handler \in {"beeExpress", "puppeteerExpress"} ) =>
        /\ NoDuplicates(output)
        /\ output = Dedup(ElementRecords(fn, input.handler, input.doc))

ExcludedColors == { <<"transparent">>, <<"inherit">>, <<"rgba(0, 0, 0, 0)">> }

\* C19: colors holds neither transparent, nor a fully transparent alpha
\* colour, nor inherit, with or without white space around the value and
\* whichever declaration (color, background, background-color) carried it.
C19_NoTransparentNoInherit ==
    (phase = "output" /\ fn = "colors") =>
        \A i \in DOMAIN output : trim(output[i]) \notin ExcludedColors

\* The font-family list of an element: declared, or the user agent's.
FontFamilyOf(el) ==
    LET v == css(el.style, "font-family")
    IN IF v = Undefined THEN <<"<ua>", "font-family">> ELSE v

\* C20: every entry of fonts is the first family of the font-family list of
\* some element, quotes stripped, and fonts holds no entry twice.
C20_FirstFamilyOnly ==
    (phase = "output" /\ fn = "fonts") =>
        /\ NoDuplicates(output)
        /\ \A i \in DOMAIN output :
              \E k \in DOMAIN AllElements(input.doc) :
                  output[i] = stripQuotes(firstFamily(FontFamilyOf(AllElements(input.doc)[k])))

-----------------------------------------------------------------------------
(* Image, logo and footer-logo references of a response *)

\* An <img> element with its src attribute and whether it stands in <footer>.
FooterImg(s, f) == [src |-> s, alt |-> <<>>, className |-> <<>>, footer |-> f]

ImgSrcs ==
    { <<>>, <<"/", "logo">>, <<"img", "/", "hero">>,
      <<"https:", "//", "cdn", "/", "logo">>, <<"data:", "image/png", "logo">> }

AssetImgs == {FooterImg(sr, f) : sr \in ImgSrcs, f \in BOOLEAN}

\* The url(...) values of computed background-image properties: the browser
\* has made them absolute, a data: URI stays what it is.
BgImages == { <<>>, <<<<"https:", "//", "cdn", "/", "bg">>>>, <<DataUri>> }

AssetHandlers == {"beeExpress", "plainEdge", "puppeteerExpress", "puppeteerNext"}

HasSrc(img) == Truthy(img.src)
SrcHasLogo(img) == includes(img.src, <<"logo">>)
FooterLogoImg(img) == img.footer /\ SrcHasLogo(img)
InFooter(img) == img.footer

\* $(selector).first().attr('src'): undefined without a match; an <img>
\* with an empty src has the attribute value ''.
firstSrc(imgs, sel(_)) ==
    LET hit == SelectSeq(imgs, sel)
    IN IF hit = <<>> THEN Undefined ELSE hit[1].src

\* value || ''
OrEmpty(v) == IF v = Undefined THEN <<>> ELSE v

\* The src property of an <img> in the browser: the attribute resolved
\* against the document's URL, '' without the attribute.
srcProperty(base, src) ==
    IF src = <<>> THEN <<>>
    ELSE IF startsWith(src, <<"data:">>) THEN src
    ELSE IF URLNewParses(src, base) THEN URLNewHref(src, base) ELSE src

\* array.filter(Boolean)
filterBoolean(list) == SelectSeq(list, Truthy)

\* images of each handler.
images(h, u, imgs, bg) ==
    CASE h = "beeExpress" ->
             LET kept == SelectSeq(imgs, HasSrc)
             IN Dedup([i \in DOMAIN kept |-> resolveUrl(u, kept[i].src)])
      [] h = "plainEdge" -> [i \in DOMAIN imgs |-> resolveUrlHref(u, imgs[i].src)]
      [] h = "puppeteerExpress" ->
             Dedup(filterBoolean([i \in DOMAIN imgs |->
                                     IF Truthy(imgs[i].src) THEN resolveUrl(u, imgs[i].src)
                                     ELSE <<>>]) \o bg)
      [] h = "puppeteerNext" ->
             LET kept == SelectSeq(imgs, HasSrc)
             IN Dedup(filterBoolean([i \in DOMAIN kept |->
                                        resolveUrlNext(URLHref(u), kept[i].src)]))

\* logo of each handler.
assetLogo(h, u, imgs) ==
    CASE h = "beeExpress" -> OrEmpty(firstSrc(imgs, SrcHasLogo))
      [] h = "plainEdge" ->
             LET found == firstSrc(imgs, SrcHasLogo)
             IN IF Truthy(found) THEN resolveUrlHref(u, found) ELSE <<>>
      [] h = "puppeteerExpress" -> selectLogo(u, Undefined, logoCandidates(imgs))
      [] h = "puppeteerNext" -> OrEmpty(firstSrc(imgs, SrcHasLogo))

\* footerLogo of each handler.
assetFooterLogo(h, u, imgs) ==
    CASE h = "beeExpress" -> resolveUrl(u, OrEmpty(firstSrc(imgs, FooterLogoImg)))
      [] h = "plainEdge" -> resolveUrlHref(u, OrEmpty(firstSrc(imgs, FooterLogoImg)))
      [] h = "puppeteerExpress" -> srcProperty(u, OrEmpty(firstSrc(imgs, InFooter)))
      [] h = "puppeteerNext" -> OrEmpty(firstSrc(imgs, FooterLogoImg))

AssetInit ==
    /\ HandlerIdle
    /\ fn = "assets"
    /\ input \in [handler : AssetHandlers, url : PageUrls,
                   imgs : UNION {[1..n -> AssetImgs] : n \in 0..MaxImgs},
                   bg : BgImages]
    /\ output = <<>>
    /\ phase = "input"

\* The images, logo and footerLogo fields of one response.
ExtractAssets ==
    /\ phase = "input"
    /\ fn = "assets"
    /\ output' = [images |-> images(input.handler, input.url, input.imgs,
                                   IF input.handler = "puppeteerExpress" THEN input.bg ELSE <<>>),
                  logo |-> assetLogo(input.handler, input.url, input.imgs),
                  footerLogo |-> assetFooterLogo(input.handler, input.url, input.imgs)]
    /\ phase' = "output"
    /\ UNCHANGED <<fn, input>>
    /\ UNCHANGED handlerVars

AssetNext == ExtractAssets

AssetSpec == AssetInit /\ [][AssetNext]_vars

\* The reference names a scheme: it is not relative.
HasScheme(u) == u # <<>> /\ u[1] \in Schemes \cup {"data:"}

\* C11: no field of a response holds a relative URL: every entry of images
\* is absolute, logo and footerLogo are absolute or the empty string.
C11_NoRelativeUrl ==
    ( /\ phase = "output"
      /\ fn = "assets"
      /\ input.handler \in {"beeExpress", "puppeteerExpress", "puppeteerNext"} ) =>
        /\ \A i \in DOMAIN output.images : HasScheme(output.images[i])
        /\ output.logo = <<>> \/ HasScheme(output.logo)
        /\ output.footerLogo = <<>> \/ HasScheme(output.footerLogo)

IsDataUri(u) == startsWith(u, <<"data:">>)

\* C15: images holds no data: URI and no empty string standing for one, and
\* neither logo nor footerLogo is a data: URI.
C15_NoDataUriOutputs ==
    (phase = "output" /\ fn = "assets") =>
        /\ \A i \in DOMAIN output.images :
              ~IsDataUri(output.images[i]) /\ output.images[i] # <<>>
        /\ ~IsDataUri(output.logo)
        /\ ~IsDataUri(output.footerLogo)

-----------------------------------------------------------------------------
(* Error classes of a request *)

\* C22: a failure while one field is extracted (page.title, page.$eval on a
\* missing element, a page.evaluate call) does not abort the request: it
\* still ends in a successful response.
C22_ExtractionErrorRecovered ==
    (pc = "done" /\ err.kind = "evaluate") => res.status = 200

\* The request names no target, a target that is not a string or not an
\* absolute http(s) URL, or a method other than GET.
InputError ==
    /\ pc # "idle"
    /\ \/ method # "GET"
       \/ ~Truthy(url)
       \/ ~IsString(url)
       \/ ~URLParses(url)

\* C24: a request with an input error is answered with an error response
\* while no fetch has been issued and no browser has been launched.
C24_InputErrorBeforeFetch ==
    InputError =>
        /\ fetchCalls = 0
        /\ browser = "none"
        /\ pc = "done" => res.status \in {400, 405}

\* The handler needs the ScrapingBee key and the environment has none.
CredentialAbsent == pc # "idle" /\ handler \in BeeHandlers /\ ~apiKey

\* C25: without the ScrapingBee key no fetch is ever issued and no strategy
\* is tried; the request ends in an error response, which comes from the
\* configuration error whenever the request itself is acceptable.
C25_NoFetchWithoutCredential ==
    CredentialAbsent =>
        /\ fetchCalls = 0
        /\ tier = 0
        /\ pending = {}
        /\ pc = "done" =>
              /\ res.status >= 400
              /\ (MethodAccepted /\ UrlAccepted) =>
                    (err.kind = "config" /\ res.status = 500)

C25_Witness ==
    /\ CredentialAbsent
    /\ pc = "done"
    /\ MethodAccepted
    /\ UrlAccepted
    /\ err.kind = "config"
    /\ res.status = 500
    /\ fetchCalls = 0

-----------------------------------------------------------------------------
(* scrapeWebsite: the client of the scrape API (src/src/lib/scraper.ts) *)

\* A JSON value: its type and, for an array, its elements, for an object,
\* the keys it has, for a string, its text (no element for '').
J(type, content) == [t |-> type, v |-> content]

Absent == J("undefined", {})
JNull == J("null", {})
Arr(elems) == J("array", elems)
Str(text) == J("string", text)
Obj(keys) == J("object", keys)

StyleKeys ==
    {"spacing", "borderRadius", "shadows", "gradients", "buttonStyles",
     "headerStyles", "layout"}

\* Array.isArray(x)
IsArray(x) == x.t = "array"

\* JavaScript truthiness of a JSON value.
JTruthy(x) == x.t \notin {"undefined", "null"} /\ ~(x.t = "string" /\ x.v = {})

NoFields ==
    [colors |-> Absent, fonts |-> Absent, images |-> Absent, headings |-> Absent,
     logo |-> Absent, styles |-> Absent]

\* The objects a scrape API may answer with.
DataObjects ==
    [colors : {Absent, Arr({"#111"}), Str({"#111"})},
     fonts : {Absent, Arr({"Inter"})},
     images : {Absent, Arr({"https://site/hero"})},
     headings : {Absent, Arr({})},
     logo : {Absent, Str({}), Str({"https://site/logo"})},
     styles : {Absent, JNull, Obj(StyleKeys), Obj({"buttonStyles"}), Str({"none"})}]

\* What response.json() resolves with: an object, an array, null or a number.
JsonBodies ==
    {[t |-> "object", fields |-> f] : f \in DataObjects}
        \cup {[t |-> ty, fields |-> NoFields] : ty \in {"array", "null", "number"}}

NoData == [t |-> "none", fields |-> NoFields]

\* typeof data
typeOf(data) == IF data.t \in {"object", "array", "null"} THEN "object" ELSE data.t

\* The default of `data.styles || {...}`.
DefaultStyles == Obj(StyleKeys)

\* processedData
processData(data) ==
    LET f == data.fields
    IN [colors |-> IF IsArray(f.colors) THEN f.colors ELSE Arr({}),
        fonts |-> IF IsArray(f.fonts) THEN f.fonts ELSE Arr({}),
        images |-> IF IsArray(f.images) THEN f.images ELSE Arr({}),
        headings |-> IF IsArray(f.headings) THEN f.headings ELSE Arr({}),
        logo |-> IF JTruthy(f.logo) THEN f.logo ELSE Absent,
        styles |-> IF JTruthy(f.styles) THEN f.styles ELSE DefaultStyles]

getFallbackAssets ==
    [colors |-> Arr({"#1a1a1a", "#ffffff", "#3b82f6"}),
     fonts |-> Arr({"system-ui", "-apple-system", "sans-serif"}),
     images |-> Arr({"unsplash-1606857521015", "unsplash-1618005182384",
                     "unsplash-1551434678"}),
     headings |-> Arr({}),
     logo |-> Absent,
     styles |-> Obj(StyleKeys)]

\* The call in progress: the response seen so far, the error thrown, the
\* value the promise settled with.
ScrapeCall(st, rejected, d, e, how, val) ==
    [status |-> st, fetchRejected |-> rejected, data |-> d, error |-> e,
     settled |-> how, value |-> val]

ScrapeInit ==
    /\ HandlerIdle
    /\ fn = "scrapeWebsite"
    /\ input \in [url : PageUrls, brand : {Undefined, <<"acme">>}]
    /\ output = ScrapeCall(0, FALSE, NoData, "none", "pending", NoFields)
    /\ phase = "fetch"

\* const response = await fetch(`/api/scrape?url=...`) resolves.
ScrapeFetchResolve ==
    /\ fn = "scrapeWebsite"
    /\ phase = "fetch"
    /\ \E st \in Statuses :
         /\ output' = [output EXCEPT !.status = st]
         /\ phase' = IF ok(st) THEN "json" ELSE "text"
    /\ UNCHANGED <<fn, input>>
    /\ UNCHANGED handlerVars

ScrapeFetchReject ==
    /\ fn = "scrapeWebsite"
    /\ phase = "fetch"
    /\ output' = [output EXCEPT !.fetchRejected = TRUE, !.error = "network"]
    /\ phase' = "catch"
    /\ UNCHANGED <<fn, input>>
    /\ UNCHANGED handlerVars

\* if (!response.ok): await response.text() and throw, or text() rejects.
ScrapeErrorText ==
    /\ fn = "scrapeWebsite"
    /\ phase = "text"
    /\ \E e \in {"status", "bodyRead"} : output' = [output EXCEPT !.error = e]
    /\ phase' = "catch"
    /\ UNCHANGED <<fn, input>>
    /\ UNCHANGED handlerVars

\* const data = await response.json() resolves.
ScrapeJsonResolve ==
    /\ fn = "scrapeWebsite"
    /\ phase = "json"
    /\ \E d \in JsonBodies : output' = [output EXCEPT !.data = d]
    /\ phase' = "validate"
    /\ UNCHANGED <<fn, input>>
    /\ UNCHANGED handlerVars

\* The body is not JSON: response.json() rejects.
ScrapeJsonReject ==
    /\ fn = "scrapeWebsite"
    /\ phase = "json"
    /\ output' = [output EXCEPT !.data = [t |-> "notJson", fields |-> NoFields],
                                !.error = "parse"]
    /\ phase' = "catch"
    /\ UNCHANGED <<fn, input>>
    /\ UNCHANGED handlerVars

\* if (!data || typeof data !== 'object') throw ...
ScrapeInvalidData ==
    /\ fn = "scrapeWebsite"
    /\ phase = "validate"
    /\ output.data.t = "null" \/ typeOf(output.data) # "object"
    /\ output' = [output EXCEPT !.error = "invalidData"]
    /\ phase' = "catch"
    /\ UNCHANGED <<fn, input>>
    /\ UNCHANGED handlerVars

\* processedData is built, the result is logged (logScrapingResult catches
\* its own failure) and returned.
ScrapeReturn ==
    /\ fn = "scrapeWebsite"
    /\ phase = "validate"
    /\ ~(output.data.t = "null" \/ typeOf(output.data) # "object")
    /\ output' = [output EXCEPT !.settled = "resolved",
                                !.value = processData(output.data)]
    /\ phase' = "done"
    /\ UNCHANGED <<fn, input>>
    /\ UNCHANGED handlerVars

\* ScrapeCatch with the error thrown again instead of the fallback returned.
ScrapeCatch_Rethrow ==
    /\ fn = "scrapeWebsite"
    /\ phase = "catch"
    /\ output' = [output EXCEPT !.settled = "rejected"]
    /\ phase' = "done"
    /\ UNCHANGED <<fn, input>>
    /\ UNCHANGED handlerVars

\* catch (error): the failure is logged and getFallbackAssets() returned.
ScrapeCatch ==
    /\ fn = "scrapeWebsite"
    /\ phase = "catch"
    /\ output' = [output EXCEPT !.settled = "resolved", !.value = getFallbackAssets]
    /\ phase' = "done"
    /\ UNCHANGED <<fn, input>>
    /\ UNCHANGED handlerVars

ScrapeNext ==
    \/ ScrapeFetchResolve
    \/ ScrapeFetchReject
    \/ ScrapeErrorText
    \/ ScrapeJsonResolve
    \/ ScrapeJsonReject
    \/ ScrapeInvalidData
    \/ ScrapeReturn
    \/ ScrapeCatch

ScrapeSpec == ScrapeInit /\ [][ScrapeNext]_vars

\* C21: whatever body the scrape API answers with, the value scrapeWebsite
\* resolves with has colors, fonts, images and headings as arrays and a
\* styles object that has buttonStyles, headerStyles and layout.
C21_FullyPopulated ==
    (fn = "scrapeWebsite" /\ phase = "done" /\ output.settled = "resolved") =>
        /\ IsArray(output.value.colors)
        /\ IsArray(output.value.fonts)
        /\ IsArray(output.value.images)
        /\ IsArray(output.value.headings)
        /\ output.value.styles.t = "object"
        /\ {"buttonStyles", "headerStyles", "layout"} \subseteq output.value.styles.v

\* The scrape API call failed: fetch rejected, the status is not 2xx, or the
\* body is not JSON, is null or is a primitive.
ScrapeFailed ==
    \/ output.fetchRejected
    \/ output.status # 0 /\ ~ok(output.status)
    \/ output.data.t \in {"notJson", "null", "number"}

\* C23: scrapeWebsite never rejects, and when the scrape API call has failed
\* it resolves with the token set of getFallbackAssets.
C23_FailureYieldsFallback ==
    fn = "scrapeWebsite" =>
        /\ output.settled # "rejected"
        /\ (phase = "done" /\ ScrapeFailed) =>
              (output.settled = "resolved" /\ output.value = getFallbackAssets)

C23_Witness ==
    /\ fn = "scrapeWebsite"
    /\ phase = "done"
    /\ output.status = 503
    /\ output.settled = "resolved"
    /\ output.value = getFallbackAssets

-----------------------------------------------------------------------------
(* The style extraction run twice on one document *)

\* The buttonStyles and headerStyles arrays of one run.
styleArrays(h, d) ==
    [buttonStyles |-> buttonStyles(h, d), headerStyles |-> headerStyles(h, d)]

\* The orders in which the values of a list can be enumerated.
Orderings(list) ==
    LET vals == {list[i] : i \in DOMAIN list}
    IN {t \in [DOMAIN list -> vals] : {t[i] : i \in DOMAIN t} = vals}

RepeatInit ==
    /\ HandlerIdle
    /\ fn = "extractTwice"
    /\ input \in [handler : {"beeExpress", "plainExpress"}, doc : StyleDocs]
    /\ output = <<>>
    /\ phase = "first"

\* The first request for the document.
FirstRun ==
    /\ fn = "extractTwice"
    /\ phase = "first"
    /\ output' = <<styleArrays(input.handler, input.doc)>>
    /\ phase' = "second"
    /\ UNCHANGED <<fn, input>>
    /\ UNCHANGED handlerVars

\* SecondRun with Sets that hand their values back in an arbitrary order.
SecondRun_UnorderedSet ==
    /\ fn = "extractTwice"
    /\ phase = "second"
    /\ \E b \in Orderings(buttonStyles(input.handler, input.doc)),
          h \in Orderings(headerStyles(input.handler, input.doc)) :
         output' = Append(output, [buttonStyles |-> b, headerStyles |-> h])
    /\ phase' = "done"
    /\ UNCHANGED <<fn, input>>
    /\ UNCHANGED handlerVars

\* The second request for the same document: the Sets are filled again in
\* document order and enumerated in insertion order.
SecondRun ==
    /\ fn = "extractTwice"
    /\ phase = "second"
    /\ output' = Append(output, styleArrays(input.handler, input.doc))
    /\ phase' = "done"
    /\ UNCHANGED <<fn, input>>
    /\ UNCHANGED handlerVars

RepeatNext == FirstRun \/ SecondRun

RepeatSpec == RepeatInit /\ [][RepeatNext]_vars

-----------------------------------------------------------------------------
(* waitForRateLimit called by concurrent callers *)

MIN_REQUEST_INTERVAL == 20000

\* Largest number of clock steps of a run.
MaxTicks == 6

\* Number of concurrent calls of generateLandingPage.
NumCallers == 3

\* The clock advances in steps of half the interval.
ClockStep == MIN_REQUEST_INTERVAL \div 2

Callers == 1..NumCallers

\* Date.now() when the module is loaded: far more than one interval after
\* the epoch, where lastRequestTime = 0 lies.
LoadTimes == {MIN_REQUEST_INTERVAL, MIN_REQUEST_INTERVAL + ClockStep}

RateInit ==
    /\ HandlerIdle
    /\ fn = "waitForRateLimit"
    /\ input \in [loaded : LoadTimes]
    /\ output = [now |-> input.loaded,
                 lastRequestTime |-> 0,
                 wake |-> [c \in Callers |-> 0],
                 passed |-> [c \in Callers |-> 0]]
    /\ phase = [c \in Callers |-> "idle"]

\* Caller c writes lastRequestTime = Date.now() and returns to its caller.
RatePass(c) ==
    /\ output' = [output EXCEPT !.lastRequestTime = output.now,
                                !.passed[c] = output.now]
    /\ phase' = [phase EXCEPT ![c] = "passed"]

\* Caller c enters waitForRateLimit: it reads the clock and lastRequestTime
\* and either starts a timer for the rest of the interval or passes at once.
RateEnter(c) ==
    /\ fn = "waitForRateLimit"
    /\ phase[c] = "idle"
    /\ LET timeSinceLastRequest == output.now - output.lastRequestTime
       IN IF timeSinceLastRequest < MIN_REQUEST_INTERVAL
          THEN /\ output' = [output EXCEPT !.wake[c] =
                     output.now + (MIN_REQUEST_INTERVAL - timeSinceLastRequest)]
               /\ phase' = [phase EXCEPT ![c] = "waiting"]
          ELSE RatePass(c)
    /\ UNCHANGED <<fn, input>>
    /\ UNCHANGED handlerVars

\* The timer of caller c has run out and its continuation is scheduled.
RateTimerFires(c) ==
    /\ fn = "waitForRateLimit"
    /\ phase[c] = "waiting"
    /\ output.now >= output.wake[c]
    /\ RatePass(c)
    /\ UNCHANGED <<fn, input>>
    /\ UNCHANGED handlerVars

\* Time passes.
RateClock ==
    /\ fn = "waitForRateLimit"
    /\ output.now + ClockStep <= input.loaded + MaxTicks * ClockStep
    /\ output' = [output EXCEPT !.now = output.now + ClockStep]
    /\ UNCHANGED <<fn, input, phase>>
    /\ UNCHANGED handlerVars

RateNext ==
    \/ \E c \in Callers : RateEnter(c)
    \/ \E c \in Callers : RateTimerFires(c)
    \/ RateClock

RateSpec == RateInit /\ [][RateNext]_vars

\* C26: any two callers that have passed waitForRateLimit passed at least
\* MIN_REQUEST_INTERVAL apart.
C26_CallersSpacedApart ==
    fn = "waitForRateLimit" =>
        \A c, d \in Callers :
            (c # d /\ phase[c] = "passed" /\ phase[d] = "passed") =>
                \/ output.passed[c] - output.passed[d] >= MIN_REQUEST_INTERVAL
                \/ output.passed[d] - output.passed[c] >= MIN_REQUEST_INTERVAL

-----------------------------------------------------------------------------
(* generateLandingPage *)

MAX_RETRIES == 3

RETRY_DELAY == 5000

\* The substrings of an error message that mark the error as retryable.
RetryableMarkers ==
    {<<"rate_limit">>, <<"timeout">>, <<"network">>, <<"internal_error">>}

isRetryable(message) == \E marker \in RetryableMarkers : includes(message, marker)

ApiKeyMissing == <<"OpenAI", "API", "key", "is", "not", "configured">>

EmptyCompletion == <<"Failed", "to", "generate", "landing", "page", "content">>

UnknownError == <<"Unknown", "error">>

NoChoices == <<"Cannot", "read", "properties", "of", "undefined">>

FailedToGenerate == <<"Failed", "to", "generate", "content">>

\* Messages of the errors the model call rejects with.
ApiErrorMessages ==
    { <<"429", "rate_limit", "exceeded">>,
      <<"Request", "timeout">>,
      <<"network", "error">>,
      <<"500", "internal_error">>,
      <<"401", "invalid_api_key">>,
      <<"Connection", "error.">> }

\* The ways one call of openai.chat.completions.create settles: a completion
\* with content, with empty content or without choices, a rejection with an
\* Error, or a rejection with a value that is not an Error.
CallOutcomes ==
    [kind : {"content", "emptyContent", "noChoices", "nonError"}, message : {<<>>}]
    \cup [kind : {"error"}, message : ApiErrorMessages]

\* The error the catch clause holds after a call that settled with outcome o.
thrown(o) ==
    CASE o.kind = "emptyContent" -> EmptyCompletion
      [] o.kind = "noChoices" -> NoChoices
      [] o.kind = "nonError" -> UnknownError
      [] OTHER -> o.message

getFallbackTemplate == <<"<html>", "fallback", "template">>

GeneratedCode == <<"<html>", "generated">>

GenInit ==
    /\ HandlerIdle
    /\ fn = "generateLandingPage"
    /\ input \in [apiKey : BOOLEAN]
    /\ output = [retries |-> 0,
                 lastError |-> Undefined,
                 calls |-> 0,
                 outcomes |-> <<>>,
                 delay |-> 0,
                 settled |-> "pending",
                 value |-> [html |-> <<>>, css |-> <<>>, error |-> Undefined]]
    /\ phase = "waitForRateLimit"

\* The return after the loop.
GenFallback(st) ==
    /\ output' = [st EXCEPT
           !.settled = "resolved",
           !.value = [html |-> getFallbackTemplate,
                      css |-> <<>>,
                      error |-> OrDefault(st.lastError, FailedToGenerate)]]
    /\ phase' = "done"

\* GenCatch that retries after every error.
GenCatch_RetryAny(st, message) ==
    LET caught == [st EXCEPT !.lastError = message, !.retries = st.retries + 1]
    IN IF caught.retries < MAX_RETRIES
       THEN /\ output' = [caught EXCEPT !.delay = RETRY_DELAY * caught.retries]
            /\ phase' = "delay"
       ELSE GenFallback(caught)

\* The catch clause of the loop body, entered with an error of the given
\* message in state st of the call.
GenCatch(st, message) ==
    LET caught == [st EXCEPT !.lastError = message]
        retried == [caught EXCEPT !.retries = st.retries + 1]
    IN IF ~isRetryable(message)
       THEN GenFallback(caught)
       ELSE IF retried.retries < MAX_RETRIES
            THEN /\ output' = [retried EXCEPT !.delay = RETRY_DELAY * retried.retries]
                 /\ phase' = "delay"
            ELSE GenFallback(retried)

\* waitForRateLimit has resolved: the client is fetched and the model called.
GenCallModel ==
    /\ fn = "generateLandingPage"
    /\ phase = "waitForRateLimit"
    /\ IF ~input.apiKey
       THEN GenCatch(output, ApiKeyMissing)
       ELSE /\ output' = [output EXCEPT !.calls = output.calls + 1]
            /\ phase' = "create"
    /\ UNCHANGED <<fn, input>>
    /\ UNCHANGED handlerVars

\* The model call resolves with a completion.
GenCreateResolve ==
    /\ fn = "generateLandingPage"
    /\ phase = "create"
    /\ \E o \in {c \in CallOutcomes : c.kind \in {"content", "emptyContent", "noChoices"}} :
         LET st == [output EXCEPT !.outcomes = Append(output.outcomes, o)]
         IN IF o.kind = "content"
            THEN /\ output' = [st EXCEPT
                       !.settled = "resolved",
                       !.value = [html |-> GeneratedCode,
                                  css |-> <<>>,
                                  error |-> Undefined]]
                 /\ phase' = "done"
            ELSE GenCatch(st, thrown(o))
    /\ UNCHANGED <<fn, input>>
    /\ UNCHANGED handlerVars

\* GenCreateReject without the try around the model call.
GenCreateReject_Uncaught ==
    /\ fn = "generateLandingPage"
    /\ phase = "create"
    /\ \E o \in {c \in CallOutcomes : c.kind \in {"error", "nonError"}} :
         output' = [output EXCEPT !.outcomes = Append(output.outcomes, o),
                                  !.settled = "rejected"]
    /\ phase' = "done"
    /\ UNCHANGED <<fn, input>>
    /\ UNCHANGED handlerVars

\* The model call rejects.
GenCreateReject ==
    /\ fn = "generateLandingPage"
    /\ phase = "create"
    /\ \E o \in {c \in CallOutcomes : c.kind \in {"error", "nonError"}} :
         GenCatch([output EXCEPT !.outcomes = Append(output.outcomes, o)], thrown(o))
    /\ UNCHANGED <<fn, input>>
    /\ UNCHANGED handlerVars

\* The timer of delay(RETRY_DELAY * retries) runs out: next round of the loop.
GenDelayOver ==
    /\ fn = "generateLandingPage"
    /\ phase = "delay"
    /\ output' = [output EXCEPT !.delay = 0]
    /\ phase' = "waitForRateLimit"
    /\ UNCHANGED <<fn, input>>
    /\ UNCHANGED handlerVars

GenNext == GenCallModel \/ GenCreateResolve \/ GenCreateReject \/ GenDelayOver

GenSpec == GenInit /\ [][GenNext]_vars

\* The timers of waitForRateLimit and delay run out and the model call
\* settles: a call that can take a step takes it.
GenLiveSpec == GenInit /\ [][GenNext]_vars /\ WF_vars(GenNext)

\* C28: the model is called at most MAX_RETRIES times, and every call but
\* the last one ended with an error whose message marks it as retryable:
\* no call follows a success or an error that is not retryable.
C28_BoundedRetries ==
    fn = "generateLandingPage" =>
        /\ output.calls <= MAX_RETRIES
        /\ Len(output.outcomes) <= output.calls
        /\ \A i \in 1..(output.calls - 1) :
              /\ output.outcomes[i].kind = "error"
              /\ isRetryable(output.outcomes[i].message)

C28_Witness ==
    /\ fn = "generateLandingPage"
    /\ phase = "done"
    /\ output.calls = MAX_RETRIES
    /\ output.outcomes[1].message = <<"Request", "timeout">>
    /\ output.outcomes[2].message = <<"network", "error">>
    /\ output.outcomes[3].kind = "emptyContent"

\* How a finished call has resolved: with the generated html and no error,
\* or with the fallback template and the message of the last error.
GenResolvedAsSpecified ==
    /\ output.settled = "resolved"
    /\ IF output.outcomes # <<>> /\ output.outcomes[Len(output.outcomes)].kind = "content"
       THEN output.value = [html |-> GeneratedCode, css |-> <<>>, error |-> Undefined]
       ELSE /\ output.value.html = getFallbackTemplate
            /\ output.value.error = output.lastError
            /\ output.lastError =
                  IF output.outcomes = <<>>
                  THEN ApiKeyMissing
                  ELSE thrown(output.outcomes[Len(output.outcomes)])

\* C29: for every sequence of model-call outcomes generateLandingPage
\* terminates, never rejects, and resolves with the generated html and no
\* error or with the fallback template's html and the message of the last
\* error.
C29_TerminatesNeverRejects ==
    /\ [](fn = "generateLandingPage" =>
            /\ output.settled # "rejected"
            /\ phase = "done" => GenResolvedAsSpecified)
    /\ <>(fn = "generateLandingPage" => phase = "done")

C29_Witness ==
    /\ fn = "generateLandingPage"
    /\ phase = "done"
    /\ ~input.apiKey
    /\ output.calls = 0
    /\ output.settled = "resolved"
    /\ output.value.html = getFallbackTemplate
    /\ output.value.error = ApiKeyMissing

-----------------------------------------------------------------------------
(* storeProjectAssets: downloadAndStoreImage of every image at once *)

\* The images of one call: the callbacks of assets.images.map run
\* concurrently under Promise.all.
Downloads == 1..MaxImgs

FALLBACK_IMAGES == <<"unsplash-1", "unsplash-2">>

\* The urls handed to downloadAndStoreImage: an image the server delivers, a
\* url that does not answer with an image, a data: url, an Unsplash url.
UrlKinds == {"image", "notImage", "data:", "unsplash"}

\* The 'project-assets' bucket does not exist when the downloads start.
StoreInit ==
    /\ HandlerIdle
    /\ fn = "storeProjectAssets"
    /\ input \in [kind : [Downloads -> UrlKinds]]
    /\ output = [bucket |-> FALSE,
                 createBucketCalls |-> 0,
                 uploaded |-> [d \in Downloads |-> FALSE],
                 settled |-> "pending",
                 images |-> <<>>]
    /\ phase = [d \in Downloads |-> "start"]

\* downloadAndStoreImage up to its first await: a data: url gives null, an
\* Unsplash url is returned as it is, any other url is validated.
StoreStart(d) ==
    /\ fn = "storeProjectAssets"
    /\ phase[d] = "start"
    /\ phase' = [phase EXCEPT ![d] =
           CASE input.kind[d] = "data:" -> "null"
             [] input.kind[d] = "unsplash" -> "insert"
             [] OTHER -> "validateImageUrl"]
    /\ UNCHANGED <<fn, input, output>>
    /\ UNCHANGED handlerVars

\* validateImageUrl resolves: an image that is not valid is dropped.
StoreValidate(d) ==
    /\ fn = "storeProjectAssets"
    /\ phase[d] = "validateImageUrl"
    /\ phase' = [phase EXCEPT ![d] =
           IF input.kind[d] = "image" THEN "listBuckets" ELSE "null"]
    /\ UNCHANGED <<fn, input, output>>
    /\ UNCHANGED handlerVars

\* ensureStorageBucket: listBuckets resolves with the buckets of this moment;
\* the bucket is created when the list does not hold it.
StoreListBuckets(d) ==
    /\ fn = "storeProjectAssets"
    /\ phase[d] = "listBuckets"
    /\ IF output.bucket
       THEN /\ phase' = [phase EXCEPT ![d] = "fetch"]
            /\ UNCHANGED output
       ELSE /\ output' = [output EXCEPT
                   !.createBucketCalls = output.createBucketCalls + 1]
            /\ phase' = [phase EXCEPT ![d] = "createBucket"]
    /\ UNCHANGED <<fn, input>>
    /\ UNCHANGED handlerVars

\* ensureStorageBucket: createBucket resolves. The storage service answers
\* the creation of an existing bucket with an error, ensureStorageBucket
\* then returns false and the image is dropped.
StoreCreateBucket(d) ==
    /\ fn = "storeProjectAssets"
    /\ phase[d] = "createBucket"
    /\ IF output.bucket
       THEN /\ phase' = [phase EXCEPT ![d] = "null"]
            /\ UNCHANGED output
       ELSE /\ output' = [output EXCEPT !.bucket = TRUE]
            /\ phase' = [phase EXCEPT ![d] = "fetch"]
    /\ UNCHANGED <<fn, input>>
    /\ UNCHANGED handlerVars

\* The image is fetched and read as a blob.
StoreFetch(d) ==
    /\ fn = "storeProjectAssets"
    /\ phase[d] = "fetch"
    /\ phase' = [phase EXCEPT ![d] = "upload"]
    /\ UNCHANGED <<fn, input, output>>
    /\ UNCHANGED handlerVars

\* The blob is uploaded to the bucket and its public url returned.
StoreUpload(d) ==
    /\ fn = "storeProjectAssets"
    /\ phase[d] = "upload"
    /\ output' = [output EXCEPT !.uploaded[d] = TRUE]
    /\ phase' = [phase EXCEPT ![d] = "insert"]
    /\ UNCHANGED <<fn, input>>
    /\ UNCHANGED handlerVars

\* storeProjectAssets inserts the asset record of a stored url.
StoreInsert(d) ==
    /\ fn = "storeProjectAssets"
    /\ phase[d] = "insert"
    /\ phase' = [phase EXCEPT ![d] = "publicUrl"]
    /\ UNCHANGED <<fn, input, output>>
    /\ UNCHANGED handlerVars

\* Promise.all resolves: the stored urls, or the fallback images when there
\* is none.
StoreReturn ==
    /\ fn = "storeProjectAssets"
    /\ output.settled = "pending"
    /\ \A d \in Downloads : phase[d] \in {"publicUrl", "null"}
    /\ LET urls == SelectSeq([d \in Downloads |-> IF phase[d] = "publicUrl"
                                                   THEN <<"stored", d>>
                                                   ELSE <<>>],
                             LAMBDA u : u # <<>>)
       IN output' = [output EXCEPT
              !.settled = "resolved",
              !.images = IF Len(urls) = 0 THEN FALLBACK_IMAGES ELSE urls]
    /\ UNCHANGED <<fn, input, phase>>
    /\ UNCHANGED handlerVars

StoreNext ==
    \/ \E d \in Downloads : StoreStart(d)
    \/ \E d \in Downloads : StoreValidate(d)
    \/ \E d \in Downloads : StoreListBuckets(d)
    \/ \E d \in Downloads : StoreCreateBucket(d)
    \/ \E d \in Downloads : StoreFetch(d)
    \/ \E d \in Downloads : StoreUpload(d)
    \/ \E d \in Downloads : StoreInsert(d)
    \/ StoreReturn

StoreSpec == StoreInit /\ [][StoreNext]_vars

\* C30: with concurrent downloads createBucket is issued at most once, and
\* no image that is valid is dropped.
C30_BucketCreatedOnce ==
    fn = "storeProjectAssets" =>
        /\ output.createBucketCalls <= 1
        /\ \A d \in Downloads : phase[d] = "null" => input.kind[d] # "image"

====
